---- MODULE Spec2Model ----
(***************************************************************************)
(* Model of the search-engine adapters (ddgs), the Tavily tool wrappers    *)
(* (langchain_tavily) and the orchestrator harness.                        *)
(*                                                                         *)
(* Python strings the code takes apart (substring tests, split, replace,   *)
(* strptime, regular expressions) are sequences of one-character strings;  *)
(* strings the code only passes along are TLA+ strings.                    *)
(***************************************************************************)
EXTENDS Integers, Sequences, FiniteSets, TLC

VARIABLES
    \* ---- ddgs.http_client2: one calling thread per adapter instance ----
    pc,                             \* position of each thread inside HttpClient2.request
    call,                           \* arguments of the call in progress
    send_connection_init,           \* httpcore ... HTTP2Connection._send_connection_init (class attribute)
    original_send_connection_init,  \* Patch.original_send_connection_init of each thread's Patch()
    requests_sent,                  \* calls of self.client.request made by the call in progress
    client_result,                  \* what self.client.request did
    outcome,                        \* what HttpClient2.request returned or raised
    accessors,                      \* per mutable location: the adapters whose requests touched it
    \* ---- ddgs.engines: one adapter working on one response body ----
    config,         \* class attributes of the adapters: search_url, search_method, items_xpath, elements_xpath
    engine,         \* the adapter in use
    body,           \* the response body the provider sends for the search
    tz,             \* the local time zone of the process, minutes east of UTC
    now,            \* the clock, in ticks of half a second
    ppc,            \* position in the search pipeline
    payload,        \* what build_payload returned or raised
    build_args,     \* the arguments of the build_payload call of the search
    html,           \* the text pre_process_html returned
    results,        \* the result records, with their current field values
    built,          \* the field values each record was built with
    reads,          \* the clock reading at which post-processing handled each record
    prev,           \* the previous run on the same body: its results and clock readings
    \* ---- langchain_tavily: one tool instance and the call it is serving ----
    tool,           \* the tool: its kind and the attributes it was constructed with
    invocation,     \* the method called and its keyword arguments
    api_reply,      \* what the Tavily API did with the request
    json_sent,      \* the JSON body the wrapper posted
    tool_outcome,   \* what the method returned or raised
    \* ---- orchestrator.api: the FastAPI application ----
    graphs_created, \* how many times create_graph has been called
    streams,        \* per request slot: the stream_generator serving it
    \* ---- orchestrator.utils and orchestrator.tools ----
    routing,        \* the last call of a router_function: its router, state, model reply and outcome
    support         \* the support tools: stdout, the tickets their callers hold, the last lookup

httpVars == <<pc, call, send_connection_init, original_send_connection_init,
              requests_sent, client_result, outcome, accessors>>
parseVars == <<config, engine, body, tz, now, ppc, payload, build_args, html, results, built,
               reads, prev>>

tavilyVars == <<tool, invocation, api_reply, json_sent, tool_outcome>>

apiVars == <<graphs_created, streams>>

agentVars == <<routing, support>>

vars == <<httpVars, parseVars, tavilyVars, apiVars, agentVars>>

\* what a step of one component leaves alone
notHttp == <<parseVars, tavilyVars, apiVars, agentVars>>
notParse == <<httpVars, tavilyVars, apiVars, agentVars>>
notTavily == <<httpVars, parseVars, apiVars, agentVars>>
notApi == <<httpVars, parseVars, tavilyVars, agentVars>>
notAgents == <<httpVars, parseVars, tavilyVars, apiVars>>

None == "None"

--------------------------------------------------------------------------
(* Python str helpers *)

\* s.startswith(prefix, i-1) for 1-based i
StartsAt(s, i, sub) ==
    /\ i + Len(sub) - 1 <= Len(s)
    /\ SubSeq(s, i, i + Len(sub) - 1) = sub

RECURSIVE FindFrom(_, _, _)
\* s.find(sub, i-1) + 1, or 0 when there is none
FindFrom(s, sub, i) ==
    IF i + Len(sub) - 1 > Len(s) THEN 0
    ELSE IF StartsAt(s, i, sub) THEN i
    ELSE FindFrom(s, sub, i + 1)

\* sub in s
PyIn(sub, s) == FindFrom(s, sub, 1) # 0

RECURSIVE PyReplace(_, _, _)
\* s.replace(old, new) for a non-empty old: one pass, left to right
PyReplace(s, old, new) ==
    IF s = <<>> THEN <<>>
    ELSE IF StartsAt(s, 1, old)
         THEN new \o PyReplace(SubSeq(s, Len(old) + 1, Len(s)), old, new)
         ELSE <<Head(s)>> \o PyReplace(Tail(s), old, new)

RECURSIVE PySplit(_, _)
\* s.split(sep) for a non-empty sep: the list of pieces
PySplit(s, sep) ==
    LET i == FindFrom(s, sep, 1)
    IN  IF i = 0 THEN <<s>>
        ELSE <<SubSeq(s, 1, i - 1)>> \o PySplit(SubSeq(s, i + Len(sep), Len(s)), sep)

Digits == <<"0","1","2","3","4","5","6","7","8","9">>
IsDigit(c) == \E d \in 1 .. 10 : Digits[d] = c
DigitVal(c) == (CHOOSE d \in 1 .. 10 : Digits[d] = c) - 1

RECURSIVE ParseIntAcc(_, _)
ParseIntAcc(s, acc) ==
    IF s = <<>> THEN acc ELSE ParseIntAcc(Tail(s), acc * 10 + DigitVal(Head(s)))
\* int(s) for a run of decimal digits
ParseInt(s) == ParseIntAcc(s, 0)

RECURSIVE NatToStr(_)
\* f"{n}" for n >= 0
NatToStr(n) ==
    IF n < 10 THEN <<Digits[n + 1]>> ELSE NatToStr(n \div 10) \o <<Digits[(n % 10) + 1]>>
\* f"{n}"
IntToStr(n) == IF n < 0 THEN <<"-">> \o NatToStr(0 - n) ELSE NatToStr(n)

RECURSIVE ZeroFill(_, _)
\* s.zfill(w)
ZeroFill(s, w) == IF Len(s) >= w THEN s ELSE ZeroFill(<<"0">> \o s, w)

UpperCase == <<"A","B","C","D","E","F","G","H","I","J","K","L","M",
               "N","O","P","Q","R","S","T","U","V","W","X","Y","Z">>
LowerCase == <<"a","b","c","d","e","f","g","h","i","j","k","l","m",
               "n","o","p","q","r","s","t","u","v","w","x","y","z">>
LowerChar(c) ==
    IF \E k \in 1 .. 26 : UpperCase[k] = c
    THEN LowerCase[CHOOSE k \in 1 .. 26 : UpperCase[k] = c]
    ELSE c
\* s.lower()
PyLower(s) == [k \in 1 .. Len(s) |-> LowerChar(s[k])]

--------------------------------------------------------------------------
(* ddgs.http_client2 *)

NumThreads == 2
Threads == 1 .. NumThreads

\* Duckduckgo.__init__ gives every adapter instance its own HttpClient2; thread t
\* drives adapter t.
AdapterOf(t) == t

TIMED_OUT == <<"t","i","m","e","d"," ","o","u","t">>

\* texts of the exceptions the httpx client raises
ExceptionTexts ==
    { <<"T","h","e"," ","r","e","a","d"," ","o","p","e","r","a","t","i","o","n"," ","t","i","m","e","d"," ","o","u","t">>,
      <<"T","i","m","e","d"," ","o","u","t">>,
      <<"C","o","n","n","e","c","t","i","o","n"," ","r","e","f","u","s","e","d">> }

\* what httpx.Client.request can do: return a response or raise
ClientResponses ==
    { [kind |-> "response", status_code |-> 200, content |-> "b-ok", text |-> "ok"] }
ClientRaises == { [kind |-> "raise", text |-> m] : m \in ExceptionTexts }
ClientResults == ClientResponses \cup ClientRaises

\* Response.__init__
Response(status_code, content, text) ==
    [kind |-> "Response", status_code |-> status_code, content |-> content, text |-> text]

\* the except clause of HttpClient2.request (a mutant: the test inverted)
request_except_inverted(ex) ==
    IF ~ PyIn(TIMED_OUT, ex.text)
    THEN [kind |-> "TimeoutException", cause |-> ex]
    ELSE [kind |-> "DDGSException", cause |-> ex]

\* the except clause of HttpClient2.request
request_except(ex) ==
    IF PyIn(TIMED_OUT, ex.text)
    THEN [kind |-> "TimeoutException", cause |-> ex]
    ELSE [kind |-> "DDGSException", cause |-> ex]

\* the try block of HttpClient2.request, given what the client did
request_try(r) ==
    IF r.kind = "response"
    THEN Response(r.status_code, r.content, r.text)
    ELSE request_except(r)

\* get and post call request with method= added; a direct call of request is
\* what both of them become
Entries == { <<"get", "GET">>, <<"post", "POST">> }

Locations == { <<"client", AdapterOf(t)>> : t \in Threads }
                \cup { <<"HTTP2Connection._send_connection_init">> }

Touch(acc, loc, t) == [acc EXCEPT ![loc] = @ \cup {AdapterOf(t)}]

InitHttp ==
    /\ pc = [t \in Threads |-> "idle"]
    /\ call = [t \in Threads |-> None]
    /\ send_connection_init = "original"
    /\ original_send_connection_init = [t \in Threads |-> None]
    /\ requests_sent = [t \in Threads |-> 0]
    /\ client_result = [t \in Threads |-> None]
    /\ outcome = [t \in Threads |-> None]
    /\ accessors = [l \in Locations |-> {}]

\* HttpClient2.request / get / post is entered: get and post add method= and delegate
Call(t) ==
    /\ pc[t] = "idle"
    /\ \E c \in Entries :
          call' = [call EXCEPT ![t] = [adapter |-> AdapterOf(t), entry |-> c[1], method |-> c[2]]]
    /\ pc' = [pc EXCEPT ![t] = "enter"]
    /\ requests_sent' = [requests_sent EXCEPT ![t] = 0]
    /\ client_result' = [client_result EXCEPT ![t] = None]
    /\ outcome' = [outcome EXCEPT ![t] = None]
    /\ UNCHANGED <<send_connection_init, original_send_connection_init, accessors, notHttp>>

\* Patch.__enter__, line 130: the current class attribute is saved
PatchSave(t) ==
    /\ pc[t] = "enter"
    /\ original_send_connection_init' =
           [original_send_connection_init EXCEPT ![t] = send_connection_init]
    /\ accessors' = Touch(accessors, <<"HTTP2Connection._send_connection_init">>, t)
    /\ pc' = [pc EXCEPT ![t] = "install"]
    /\ UNCHANGED <<call, send_connection_init, requests_sent, client_result, outcome, notHttp>>

\* Patch.__enter__, line 131: the class attribute is replaced by this Patch's closure
PatchInstall(t) ==
    /\ pc[t] = "install"
    /\ send_connection_init' = <<"patched", t>>
    /\ accessors' = Touch(accessors, <<"HTTP2Connection._send_connection_init">>, t)
    /\ pc' = [pc EXCEPT ![t] = "try"]
    /\ UNCHANGED <<call, original_send_connection_init, requests_sent, client_result, outcome, notHttp>>

\* a retrying variant of the try block (a mutant): a timed-out request is sent again
ClientRequestRetrying(t) ==
    /\ pc[t] = "try"
    /\ \E r \in ClientResults :
          /\ client_result' = [client_result EXCEPT ![t] = r]
          /\ outcome' = [outcome EXCEPT ![t] = request_try(r)]
          /\ pc' = [pc EXCEPT ![t] =
                      IF r.kind = "raise" /\ PyIn(TIMED_OUT, r.text) /\ requests_sent[t] < 2
                      THEN "try" ELSE "exit"]
    /\ requests_sent' = [requests_sent EXCEPT ![t] = @ + 1]
    /\ accessors' = Touch(accessors, <<"client", call[t].adapter>>, t)
    /\ UNCHANGED <<call, send_connection_init, original_send_connection_init, notHttp>>

\* lines 57-65: self.client.request(...) is called once; its result is wrapped
\* or its exception classified
ClientRequest(t) ==
    /\ pc[t] = "try"
    /\ \E r \in ClientResults :
          /\ client_result' = [client_result EXCEPT ![t] = r]
          /\ outcome' = [outcome EXCEPT ![t] = request_try(r)]
    /\ requests_sent' = [requests_sent EXCEPT ![t] = @ + 1]
    /\ accessors' = Touch(accessors, <<"client", call[t].adapter>>, t)
    /\ pc' = [pc EXCEPT ![t] = "exit"]
    /\ UNCHANGED <<call, send_connection_init, original_send_connection_init, notHttp>>

\* Patch.__exit__: the saved attribute is written back and the Patch object is
\* dropped; the result or the exception then leaves request
PatchExit(t) ==
    /\ pc[t] = "exit"
    /\ send_connection_init' = original_send_connection_init[t]
    /\ original_send_connection_init' = [original_send_connection_init EXCEPT ![t] = None]
    /\ accessors' = Touch(accessors, <<"HTTP2Connection._send_connection_init">>, t)
    /\ pc' = [pc EXCEPT ![t] = "done"]
    /\ UNCHANGED <<call, requests_sent, client_result, outcome, notHttp>>

\* the caller has the result; the thread is free for its next call
Return(t) ==
    /\ pc[t] = "done"
    /\ pc' = [pc EXCEPT ![t] = "idle"]
    /\ call' = [call EXCEPT ![t] = None]
    /\ requests_sent' = [requests_sent EXCEPT ![t] = 0]
    /\ client_result' = [client_result EXCEPT ![t] = None]
    /\ outcome' = [outcome EXCEPT ![t] = None]
    /\ UNCHANGED <<send_connection_init, original_send_connection_init, accessors, notHttp>>

NextHttp ==
    \E t \in Threads :
        \/ Call(t)
        \/ PatchSave(t)
        \/ PatchInstall(t)
        \/ ClientRequest(t)
        \/ PatchExit(t)
        \/ Return(t)


--------------------------------------------------------------------------
(* Claims about ddgs.http_client2 *)

\* 'timed out' occurs in the text, stated without the scan FindFrom makes
ContainsTimedOut(text) ==
    \E i \in 1 .. Len(text) :
        /\ i + 8 <= Len(text)
        /\ \A k \in 1 .. 9 : text[i + k - 1] = TIMED_OUT[k]

\* C1: when the underlying client raises, the caller of request/get/post gets
\* TimeoutException if the exception's text contains 'timed out' and
\* DDGSException otherwise, and nothing else; when the client returns, the
\* caller gets a Response with the client's status_code, content and text.
C1_ErrorsAreTyped ==
    \A t \in Threads :
        pc[t] \in {"exit", "done"} =>
            LET r == client_result[t]
                o == outcome[t]
            IN  /\ r.kind = "raise" =>
                     /\ o.kind \in {"TimeoutException", "DDGSException"}
                     /\ (o.kind = "TimeoutException") <=> ContainsTimedOut(r.text)
                /\ r.kind = "response" =>
                     /\ o.kind = "Response"
                     /\ o.status_code = r.status_code
                     /\ o.content = r.content
                     /\ o.text = r.text

\* two finished calls, one that timed out and one that failed otherwise
C1_Witness ==
    \E t, u \in Threads :
        /\ pc[t] = "done" /\ outcome[t].kind = "TimeoutException"
        /\ pc[u] = "done" /\ outcome[u].kind = "DDGSException"
        /\ call[t].entry = "get" /\ call[u].entry = "post"

\* C2: no retry: a call of request/get/post issues exactly one request on the
\* underlying client, whether it succeeds, times out or fails otherwise.
C2_ExactlyOneRequest ==
    \A t \in Threads :
        /\ requests_sent[t] <= 1
        /\ pc[t] \in {"exit", "done"} => requests_sent[t] = 1
        /\ pc[t] \in {"enter", "install", "try"} => requests_sent[t] = 0

\* a call that timed out has left request after its single request
C2_Witness ==
    \E t \in Threads :
        /\ pc[t] = "done"
        /\ outcome[t].kind = "TimeoutException"
        /\ requests_sent[t] = 1

\* C4: requests share no mutable state other than the HTTP client of their
\* own adapter: no mutable location is touched by the requests of two
\* different adapter instances.
C4_NoSharedMutableState ==
    \A l \in Locations : Cardinality(accessors[l]) <= 1

--------------------------------------------------------------------------
(* datetime: an instant is [days since 1970-01-01, sec of the day, usec] *)

IsLeap(y) == (y % 4 = 0 /\ y % 100 # 0) \/ y % 400 = 0

DaysInMonth(y, m) ==
    IF m = 2 THEN (IF IsLeap(y) THEN 29 ELSE 28)
    ELSE IF m \in {4, 6, 9, 11} THEN 30 ELSE 31

\* date(y, m, d) - date(1970, 1, 1), in days (proleptic Gregorian calendar)
DaysFromCivil(y, m, d) ==
    LET yy  == IF m <= 2 THEN y - 1 ELSE y
        era == yy \div 400
        yoe == yy - era * 400
        mp  == IF m > 2 THEN m - 3 ELSE m + 9
        doy == (153 * mp + 2) \div 5 + d - 1
        doe == yoe * 365 + yoe \div 4 - yoe \div 100 + doy
    IN  era * 146097 + doe - 719468

\* date(1970, 1, 1) + timedelta(days=z), as [y, m, d]
CivilFromDays(z) ==
    LET zz  == z + 719468
        era == zz \div 146097
        doe == zz - era * 146097
        yoe == (doe - doe \div 1460 + doe \div 36524 - doe \div 146096) \div 365
        doy == doe - (365 * yoe + yoe \div 4 - yoe \div 100)
        mp  == (5 * doy + 2) \div 153
        d   == doy - (153 * mp + 2) \div 5 + 1
        m   == IF mp < 10 THEN mp + 3 ELSE mp - 9
    IN  [y |-> yoe + era * 400 + (IF m <= 2 THEN 1 ELSE 0), m |-> m, d |-> d]

\* naive local midnight of [y, m, d] . astimezone(timezone.utc), the local zone
\* being zone minutes east of UTC
AsTimezoneUtc(date, zone) ==
    LET secs == 0 - zone * 60
    IN  [days |-> DaysFromCivil(date.y, date.m, date.d) + secs \div 86400,
         sec  |-> secs % 86400,
         usec |-> 0]

\* aware_utc_datetime.isoformat()
IsoFormat(t) ==
    LET c == CivilFromDays(t.days)
        two(n) == ZeroFill(NatToStr(n), 2)
    IN  ZeroFill(NatToStr(c.y), 4) \o <<"-">> \o two(c.m) \o <<"-">> \o two(c.d)
        \o <<"T">> \o two(t.sec \div 3600) \o <<":">> \o two((t.sec \div 60) % 60)
        \o <<":">> \o two(t.sec % 60)
        \o (IF t.usec = 0 THEN <<>> ELSE <<".">> \o ZeroFill(NatToStr(t.usec), 6))
        \o <<"+","0","0",":","0","0">>

\* the %d, %m and %Y directives of _strptime as sets of field texts
NonZeroDigit(c) == IsDigit(c) /\ c # "0"
DayField(f) ==
    \/ Len(f) = 1 /\ NonZeroDigit(f[1])
    \/ /\ Len(f) = 2
       /\ \/ f[1] = "3" /\ f[2] \in {"0", "1"}
          \/ f[1] \in {"1", "2"} /\ IsDigit(f[2])
          \/ f[1] \in {"0", " "} /\ NonZeroDigit(f[2])
MonthField(f) ==
    \/ Len(f) = 1 /\ NonZeroDigit(f[1])
    \/ /\ Len(f) = 2
       /\ \/ f[1] = "1" /\ f[2] \in {"0", "1", "2"}
          \/ f[1] = "0" /\ NonZeroDigit(f[2])
YearField(f) == Len(f) = 4 /\ \A k \in 1 .. 4 : IsDigit(f[k])
FieldInt(f) == IF Head(f) = " " THEN ParseInt(Tail(f)) ELSE ParseInt(f)

StrptimeValueError == [ok |-> FALSE, y |-> 0, m |-> 0, d |-> 0]

\* datetime.strptime(s, fmt) for fmt = A sep B sep %Y, where (A, B) is
\* (%d, %m) when dayFirst and (%m, %d) otherwise: [ok, y, m, d], ok being
\* FALSE for ValueError
Strptime(s, sep, dayFirst) ==
    LET p == PySplit(s, <<sep>>)
    IN  IF Len(p) # 3 \/ p[1] = <<>> \/ p[2] = <<>> THEN StrptimeValueError
        ELSE LET df == IF dayFirst THEN p[1] ELSE p[2]
                 mf == IF dayFirst THEN p[2] ELSE p[1]
             IN  IF ~ (DayField(df) /\ MonthField(mf) /\ YearField(p[3]))
                 THEN StrptimeValueError
                 ELSE LET y == ParseInt(p[3])
                          m == FieldInt(mf)
                          d == FieldInt(df)
                      IN  IF y < 1 \/ d > DaysInMonth(y, m) THEN StrptimeValueError
                          ELSE [ok |-> TRUE, y |-> y, m |-> m, d |-> d]

--------------------------------------------------------------------------
(* ddgs.engines.bing_news: extract_date *)

\* the units DATE_RE knows (non-ASCII letters are written by code point)
DATE_RE_UNITS ==
    { <<"d","a","y","s">>, <<"t","a","g","e","n">>, <<"j","o","u","r","s">>,
      <<"g","i","o","r","n","i">>, <<"d","i","a","s">>, <<"d","U+00ED","a","s">>,
      <<"U+0434","U+043D",".">>, <<"U+0434","U+0435","U+043D","U+044C">> }

WhiteSpace == {" ", "\t", "\n", "\r"}
IsWordChar(c) ==
    \/ IsDigit(c)
    \/ c = "_"
    \/ \E k \in 1 .. 26 : c = UpperCase[k] \/ c = LowerCase[k]
    \/ c \in {"U+00ED", "U+0434", "U+043D", "U+0435", "U+044C"}

\* \b between s[q-1] and s[q]
WordBoundary(s, q) ==
    LET w(k) == k \in 1 .. Len(s) /\ IsWordChar(s[k])
    IN  w(q - 1) # w(q)

RECURSIVE RunEnd(_, _, _)
\* the last index of the run of characters satisfying P that starts at i
\* (i - 1 when s[i] does not satisfy it)
RunEnd(P(_), s, i) ==
    IF i <= Len(s) /\ P(s[i]) THEN RunEnd(P, s, i + 1) ELSE i - 1

\* DATE_RE matches at index i:  \b(\d+)\s*(unit)?\b
DateReMatchAt(s, i) ==
    /\ IsDigit(s[i])
    /\ WordBoundary(s, i)
    /\ LET p  == RunEnd(IsDigit, s, i) + 1
           IsSpace(c) == c \in WhiteSpace
           ws == RunEnd(IsSpace, s, p) - p + 1
       IN  \E k \in 0 .. ws :
           \E u \in DATE_RE_UNITS \cup {<<>>} :
               /\ StartsAt(PyLower(s), p + k, u)
               /\ WordBoundary(s, p + k + Len(u))

\* DATE_RE.search(s): group(1) of the leftmost match, or <<>> when there is none
DateReSearch(s) ==
    LET hits == { i \in 1 .. Len(s) : DateReMatchAt(s, i) }
    IN  IF hits = {} THEN <<>>
        ELSE LET i == CHOOSE h \in hits : \A g \in hits : h <= g
             IN  SubSeq(s, i, RunEnd(IsDigit, s, i))

\* datetime.now(timezone.utc) - timedelta(days=n)
MinusDays(t, n) == [t EXCEPT !.days = @ - n]

\* the microseconds kept (a mutant of ZeroMicroseconds)
KeepMicroseconds(t) == t

\* .replace(microsecond=0)
ZeroMicroseconds(t) == [t EXCEPT !.usec = 0]

\* extract_date(pub_date_str), with the clock reading and the local zone
\* (minutes east of UTC) it runs under
extract_date(pub_date_str, utcnow, zone) ==
    LET f1 == Strptime(pub_date_str, ".", TRUE)      \* %d.%m.%Y
        f2 == Strptime(pub_date_str, "/", FALSE)     \* %m/%d/%Y
        f3 == Strptime(pub_date_str, "/", TRUE)      \* %d/%m/%Y
        match == DateReSearch(pub_date_str)
    IN  IF f1.ok THEN IsoFormat(AsTimezoneUtc(f1, zone))
        ELSE IF f2.ok THEN IsoFormat(AsTimezoneUtc(f2, zone))
        ELSE IF f3.ok THEN IsoFormat(AsTimezoneUtc(f3, zone))
        ELSE IF match # <<>>
             THEN IsoFormat(ZeroMicroseconds(MinusDays(utcnow, ParseInt(match))))
        ELSE pub_date_str

--------------------------------------------------------------------------
(* ddgs.engines: AnnasArchive, BingNews, Duckduckgo *)

\* the name attribute of the three adapter classes
Engines == {"annasarchive", "bing", "duckduckgo"}

\* the class attributes as the class bodies define them
AdapterConfig ==
    [e \in Engines |->
        CASE e = "annasarchive" ->
               [search_url |-> <<"h","t","t","p","s",":","/","/","a","n","n","a","s","-","a","r","c","h","i","v","e",".","l","i","/","s","e","a","r","c","h">>,
                search_method |-> "GET",
                items_xpath |-> "//div[contains(@class, 'record-list-outer')]/div",
                elements_xpath |->
                    [title |-> ".//a[contains(@class, 'text-lg')]//text()",
                     author |-> ".//a[span[contains(@class, 'user')]]//text()",
                     publisher |-> ".//a[span[contains(@class, 'company')]]//text()",
                     info |-> ".//div[contains(@class, 'text-gray-800')]/text()",
                     url |-> "./a/@href",
                     thumbnail |-> ".//img/@src"]]
          [] e = "bing" ->
               [search_url |-> <<"h","t","t","p","s",":","/","/","w","w","w",".","b","i","n","g",".","c","o","m","/","n","e","w","s","/","i","n","f","i","n","i","t","e","s","c","r","o","l","l","a","j","a","x">>,
                search_method |-> "GET",
                items_xpath |-> "//div[contains(@class, 'newsitem')]",
                elements_xpath |->
                    [date |-> ".//span[@aria-label]//@aria-label",
                     title |-> "@data-title",
                     body |-> ".//div[@class='snippet']//text()",
                     url |-> "@url",
                     image |-> ".//a[contains(@class, 'image')]//@src",
                     source |-> "@data-author"]]
          [] e = "duckduckgo" ->
               [search_url |-> <<"h","t","t","p","s",":","/","/","h","t","m","l",".","d","u","c","k","d","u","c","k","g","o",".","c","o","m","/","h","t","m","l","/">>,
                search_method |-> "POST",
                items_xpath |-> "//div[contains(@class, 'body')]",
                elements_xpath |->
                    [title |-> ".//h2//text()", href |-> "./a/@href", body |-> "./a//text()"]]]

\* bool(x) for x: str | None, the strings being opaque
Truthy(x) == x \notin {None, ""}

Payload(kv) == [kind |-> "payload", value |-> kv]
Raised(exc) == [kind |-> "raise", exc |-> exc]
NoPayload == [kind |-> "none"]

\* AnnasArchive.build_payload
AnnasArchive_build_payload(query, region, safesearch, timelimit, page) ==
    Payload([q |-> query, page |-> IntToStr(page)])

\* the qft table of BingNews.build_payload
BING_QFT ==
    [d |-> "interval=\"4\"", w |-> "interval=\"7\"", m |-> "interval=\"9\"", y |-> "interval=\"9\""]

\* BingNews.build_payload with pages counted from 0
BingNews_build_payload_zero_based(query, region, safesearch, timelimit, page) ==
    LET parts == PySplit(PyLower(region), <<"-">>)
    IN  IF Len(parts) # 2 THEN Raised("ValueError")
        ELSE LET base == [q |-> query,
                          InfiniteScroll |-> <<"1">>,
                          first |-> IntToStr(page * 10),
                          SFX |-> IntToStr(page),
                          cc |-> parts[1],
                          setlang |-> parts[2]]
             IN  IF ~ Truthy(timelimit) THEN Payload(base)
                 ELSE IF timelimit \notin DOMAIN BING_QFT THEN Raised("KeyError")
                 ELSE Payload(("qft" :> BING_QFT[timelimit]) @@ base)

\* BingNews.build_payload looking the time limit up with dict.get and leaving
\* 'qft' out when there is no entry
BingNews_build_payload_lenient(query, region, safesearch, timelimit, page) ==
    LET parts == PySplit(PyLower(region), <<"-">>)
    IN  IF Len(parts) # 2 THEN Raised("ValueError")
        ELSE LET base == [q |-> query,
                          InfiniteScroll |-> <<"1">>,
                          first |-> IntToStr(page * 10 + 1),
                          SFX |-> IntToStr(page),
                          cc |-> parts[1],
                          setlang |-> parts[2]]
             IN  IF ~ Truthy(timelimit) \/ timelimit \notin DOMAIN BING_QFT THEN Payload(base)
                 ELSE Payload(("qft" :> BING_QFT[timelimit]) @@ base)

\* BingNews.build_payload
BingNews_build_payload(query, region, safesearch, timelimit, page) ==
    LET parts == PySplit(PyLower(region), <<"-">>)
    IN  IF Len(parts) # 2 THEN Raised("ValueError")
        ELSE LET base == [q |-> query,
                          InfiniteScroll |-> <<"1">>,
                          first |-> IntToStr(page * 10 + 1),
                          SFX |-> IntToStr(page),
                          cc |-> parts[1],
                          setlang |-> parts[2]]
             IN  IF ~ Truthy(timelimit) THEN Payload(base)
                 ELSE IF timelimit \notin DOMAIN BING_QFT THEN Raised("KeyError")
                 ELSE Payload(("qft" :> BING_QFT[timelimit]) @@ base)

\* Duckduckgo.build_payload with the offset of the page after the requested one
Duckduckgo_build_payload_next_offset(query, region, safesearch, timelimit, page) ==
    LET base == [q |-> query, b |-> <<>>, l |-> region]
        paged == IF page > 1
                 THEN ("s" :> IntToStr(10 + (page - 1) * 15)) @@ base
                 ELSE base
    IN  Payload(IF Truthy(timelimit) THEN ("df" :> timelimit) @@ paged ELSE paged)

\* Duckduckgo.build_payload
Duckduckgo_build_payload(query, region, safesearch, timelimit, page) ==
    LET base == [q |-> query, b |-> <<>>, l |-> region]
        paged == IF page > 1
                 THEN ("s" :> IntToStr(10 + (page - 2) * 15)) @@ base
                 ELSE base
    IN  Payload(IF Truthy(timelimit) THEN ("df" :> timelimit) @@ paged ELSE paged)

build_payload(e, query, region, safesearch, timelimit, page) ==
    CASE e = "annasarchive" -> AnnasArchive_build_payload(query, region, safesearch, timelimit, page)
      [] e = "bing" -> BingNews_build_payload(query, region, safesearch, timelimit, page)
      [] e = "duckduckgo" -> Duckduckgo_build_payload(query, region, safesearch, timelimit, page)

\* AnnasArchive.pre_process_html
AnnasArchive_pre_process_html(html_text) ==
    PyReplace(PyReplace(html_text, <<"<","!","-","-">>, <<>>), <<"-","-",">">>, <<>>)

\* the pre_process_html hook an adapter runs: AnnasArchive overrides it, the
\* other two inherit the base class's, which returns the text as it is
pre_process_html(e, html_text) ==
    IF e = "annasarchive" THEN AnnasArchive_pre_process_html(html_text) ELSE html_text

\* The item nodes a provider's page can hold, as the values the adapter's
\* elements_xpath selects from each.  In a body the character k stands for the
\* markup of node k.
ItemNodes(e) ==
    CASE e = "annasarchive" ->
           [k \in 1 .. 6 |->
              [title |-> "title", author |-> "author", publisher |-> "publisher",
               info |-> "info", thumbnail |-> "thumb.jpg",
               url |-> CASE k \in {1, 4} -> <<"/","m","d","5","/","a","b","c">>
                         [] k \in {2, 5} -> <<"/","m","d","5","/","d","e","f">>
                         [] OTHER -> <<>>]]
      [] e = "bing" ->
           [k \in 1 .. 6 |->
              [title |-> "title", body |-> "snippet", source |-> "author",
               url |-> <<"h","t","t","p","s",":","/","/","n",".","e","x","/","a">>,
               date |-> CASE k = 1 -> <<"2","5",".","1","2",".","2","0","2","3">>
                          [] k = 2 -> <<"0","3","/","0","4","/","2","0","2","4">>
                          [] k = 3 -> <<"1","3","/","0","4","/","2","0","2","4">>
                          [] k = 4 -> <<"2"," ","d","a","y","s">>
                          [] k = 5 -> <<"5"," ","h","o","u","r","s"," ","a","g","o">>
                          [] k = 6 -> <<"y","e","s","t","e","r","d","a","y">>,
               image |-> CASE k \in {1, 4} -> <<"/","t","h","?","i","d","=","A","&","w","=","1","0","0","&","h","=","5","0">>
                           [] k \in {3, 5} -> <<"/","t","h","?","i","d","=","B">>
                           [] OTHER -> <<>>]]
      [] e = "duckduckgo" ->
           [k \in 1 .. 6 |->
              [title |-> "title", href |-> <<"/","l","/","?","u","=","x">>, body |-> "snippet"]]

RECURSIVE VisibleItems(_, _)
\* the item nodes of a page in document order; markup inside <!-- --> is a
\* comment and holds no nodes
VisibleItems(text, inComment) ==
    IF text = <<>> THEN <<>>
    ELSE IF ~ inComment /\ StartsAt(text, 1, <<"<","!","-","-">>)
         THEN VisibleItems(SubSeq(text, 5, Len(text)), TRUE)
    ELSE IF inComment /\ StartsAt(text, 1, <<"-","-",">">>)
         THEN VisibleItems(SubSeq(text, 4, Len(text)), FALSE)
    ELSE IF ~ inComment /\ IsDigit(Head(text)) /\ DigitVal(Head(text)) \in 1 .. 6
         THEN <<DigitVal(Head(text))>> \o VisibleItems(Tail(text), inComment)
    ELSE VisibleItems(Tail(text), inComment)

\* the XPath mapping: one record per node items_xpath matches, its fields the
\* values elements_xpath selects
extract_results(e, html_text) ==
    LET ids == VisibleItems(html_text, FALSE)
    IN  [i \in 1 .. Len(ids) |-> ItemNodes(e)[ids[i]]]

\* the origin taken to be search_url itself (a mutant)
AnnasArchive_post_extract_results_unsplit(self, rs) ==
    [self |-> self,
     results |-> [i \in 1 .. Len(rs) |-> [rs[i] EXCEPT !.url = self.search_url \o @]]]

\* the origin stored back into search_url (a mutant)
AnnasArchive_post_extract_results_setattr(self, rs) ==
    LET base_url == PySplit(self.search_url, <<"/","s","e","a","r","c","h">>)[1]
    IN  [self |-> [self EXCEPT !.search_url = base_url],
         results |-> [i \in 1 .. Len(rs) |-> [rs[i] EXCEPT !.url = base_url \o @]]]

\* AnnasArchive.post_extract_results: the adapter and the list as the call leaves them
AnnasArchive_post_extract_results(self, rs) ==
    LET base_url == PySplit(self.search_url, <<"/","s","e","a","r","c","h">>)[1]
    IN  [self |-> self,
         results |-> [i \in 1 .. Len(rs) |-> [rs[i] EXCEPT !.url = base_url \o @]]]

BING_ORIGIN == <<"h","t","t","p","s",":","/","/","w","w","w",".","b","i","n","g",".","c","o","m">>

\* the url given the Bing origin as well (a mutant)
BingNews_post_extract_results_url(rs, clock, zone) ==
    [i \in 1 .. Len(rs) |->
        [rs[i] EXCEPT
            !.date = extract_date(@, clock[i], zone),
            !.url = BING_ORIGIN \o @,
            !.image = IF @ # <<>> THEN BING_ORIGIN \o PySplit(@, <<"&">>)[1] ELSE <<>>]]

\* BingNews.post_extract_results: the list as the call leaves it, record i
\* being handled when the clock reads clock[i]
BingNews_post_extract_results(rs, clock, zone) ==
    [i \in 1 .. Len(rs) |->
        [rs[i] EXCEPT
            !.date = extract_date(@, clock[i], zone),
            !.image = IF @ # <<>> THEN BING_ORIGIN \o PySplit(@, <<"&">>)[1] ELSE <<>>]]

\* the inputs of a search
Queries == {"tla"}
Regions ==
    { <<"u","s","-","e","n">>, <<"U","S","-","e","n">>, <<"u","s","e","n">>,
      <<"a","-","b","-","c">> }
SafeSearches == {"moderate", "off"}
TimeLimits == {None, "", "d", "w", "m", "y", "h"}
MaxPage == 3
Pages == 0 .. MaxPage

\* response bodies: item nodes 1..6, some of them inside an HTML comment
Bodies ==
    { <<"1","2">>,
      <<"3","<","!","-","-","4","-","-",">","5">>,
      <<"4","6">>,
      <<>> }

\* local time zones, minutes east of UTC
TimeZones == {0 - 300, 0, 120}

\* the clock advances in ticks of half a second from 2024-03-18 23:59:59 UTC
MaxTicks == 3
ClockStart == [days |-> 19800, sec |-> 86399]
ClockAt(k) ==
    LET half == ClockStart.sec * 2 + k
    IN  [days |-> ClockStart.days + half \div 172800,
         sec  |-> (half \div 2) % 86400,
         usec |-> (half % 2) * 500000]

\* no build_payload call has been made for the search
NoArgs == [called |-> FALSE]

NoPrev == [has |-> FALSE, results |-> <<>>, reads |-> <<>>]

InitParse ==
    /\ config = AdapterConfig
    /\ engine \in Engines
    /\ body \in Bodies
    /\ tz \in TimeZones
    /\ now = 0
    /\ ppc = "start"
    /\ payload = NoPayload
    /\ build_args = NoArgs
    /\ html = <<>>
    /\ results = <<>>
    /\ built = <<>>
    /\ reads = <<>>
    /\ prev = NoPrev

\* the engines at rest, for the specifications of the other components
IdleParse ==
    /\ config = AdapterConfig
    /\ engine = "annasarchive"
    /\ body = <<>>
    /\ tz = 0
    /\ now = 0
    /\ ppc = "start"
    /\ payload = NoPayload
    /\ build_args = NoArgs
    /\ html = <<>>
    /\ results = <<>>
    /\ built = <<>>
    /\ reads = <<>>
    /\ prev = NoPrev

\* the search starts: build_payload; an exception it raises ends the search
BuildPayload ==
    /\ ppc = "start"
    /\ \E q \in Queries, r \in Regions, ss \in SafeSearches, tl \in TimeLimits, p \in Pages :
          LET pl == build_payload(engine, q, r, ss, tl, p)
          IN  /\ payload' = pl
              /\ build_args' = [called |-> TRUE, query |-> q, region |-> r, safesearch |-> ss,
                                timelimit |-> tl, page |-> p]
              /\ ppc' = IF pl.kind = "raise" THEN "raised" ELSE "payload"
    /\ UNCHANGED <<config, engine, body, tz, now, html, results, built, reads, prev, notParse>>

\* the request is sent, the body arrives and goes through pre_process_html
PreProcess ==
    /\ ppc = "payload"
    /\ html' = pre_process_html(engine, body)
    /\ payload' = NoPayload
    /\ build_args' = NoArgs
    /\ ppc' = "html"
    /\ UNCHANGED <<config, engine, body, tz, now, results, built, reads, prev, notParse>>

\* the XPath mapping builds the records
Extract ==
    /\ ppc = "html"
    /\ results' = extract_results(engine, html)
    /\ built' = results'
    /\ ppc' = "extracted"
    /\ UNCHANGED <<config, engine, body, tz, now, payload, build_args, html, reads, prev, notParse>>

\* the clock readings post-processing can see: one per record, none earlier
\* than the one before
ClockReadings(n) ==
    { r \in [1 .. n -> now .. MaxTicks] : \A i, j \in 1 .. n : i <= j => r[i] <= r[j] }

\* post_extract_results of the adapter in use (Duckduckgo inherits the base
\* class's hook, which returns the list as it is)
PostExtract ==
    /\ ppc = "extracted"
    /\ CASE engine = "annasarchive" ->
              LET out == AnnasArchive_post_extract_results(config[engine], results)
              IN  /\ config' = [config EXCEPT ![engine] = out.self]
                  /\ results' = out.results
                  /\ reads' = <<>>
                  /\ now' = now
         [] engine = "bing" ->
              \E r \in ClockReadings(Len(results)) :
                  /\ results' = BingNews_post_extract_results(
                                    results, [i \in 1 .. Len(results) |-> ClockAt(r[i])], tz)
                  /\ reads' = r
                  /\ now' = IF Len(results) = 0 THEN now ELSE r[Len(results)]
                  /\ config' = config
         [] engine = "duckduckgo" ->
              /\ results' = results
              /\ reads' = <<>>
              /\ now' = now
              /\ config' = config
    /\ ppc' = "done"
    /\ UNCHANGED <<engine, body, tz, payload, build_args, html, built, prev, notParse>>

\* the search has ended; the same search is made again
Restart ==
    /\ ppc \in {"done", "raised"}
    /\ prev' = IF ppc = "done" THEN [has |-> TRUE, results |-> results, reads |-> reads]
               ELSE prev
    /\ ppc' = "start"
    /\ payload' = NoPayload
    /\ build_args' = NoArgs
    /\ html' = <<>>
    /\ results' = <<>>
    /\ built' = <<>>
    /\ reads' = <<>>
    /\ UNCHANGED <<config, engine, body, tz, now, notParse>>

\* time passes
Tick ==
    /\ now < MaxTicks
    /\ now' = now + 1
    /\ UNCHANGED <<config, engine, body, tz, ppc, payload, build_args, html, results, built,
                   reads, prev, notParse>>

NextParse ==
    \/ BuildPayload
    \/ PreProcess
    \/ Extract
    \/ PostExtract
    \/ Restart
    \/ Tick

--------------------------------------------------------------------------
(* langchain_tavily: TavilySearch, TavilyExtract, TavilyMap and their API wrappers *)

\* an Optional[...] value: Python's None, or a value that is present
NoneValue == [none |-> TRUE]
Some(x) == [none |-> FALSE, v |-> x]

\* a keyword argument the caller left out: the parameter takes its default
Omitted == [omitted |-> TRUE]
Arg(given, default) == IF given = Omitted THEN default ELSE given

\* bool(x) of an Optional list, str or bool
TruthyList(o) == ~ o.none /\ o.v # <<>>
TruthyStr(o) == ~ o.none /\ o.v # ""
TruthyBool(o) == ~ o.none /\ o.v

\* dict.get(key) and dict.get(key, default) of a dict with string keys
Get(d, key) == IF key \in DOMAIN d THEN d[key] ELSE NoneValue
GetOr(d, key, default) == IF key \in DOMAIN d THEN d[key] ELSE default

\* {k: v for k, v in params.items() if v}, as the integer parameters see it:
\* a 0 is dropped as well
RemoveNone_falsy(params) ==
    [k \in { key \in DOMAIN params :
                /\ ~ params[key].none
                /\ key \in {"max_results", "max_depth", "max_breadth", "limit"} =>
                       params[key].v # 0 } |-> params[k].v]

\* {k: v for k, v in params.items() if v is not None}
RemoveNone(params) ==
    [k \in { key \in DOMAIN params : ~ params[key].none } |-> params[k].v]

\* what a method does in the end
Returns(value) == [kind |-> "return", value |-> value]
Raises(exc) == [kind |-> "raise", exc |-> exc]

\* what the Tavily API does with one POST: it answers, or the transport fails
Reply(status, reason, json) ==
    [kind |-> "response", status |-> status, reason |-> reason, json |-> json]
ConnectionError ==
    [type |-> "ConnectionError", message |-> [text |-> "Connection refused"]]
TransportFailure == [kind |-> "error", exc |-> ConnectionError]

\* the body of a reply that is not a 200: {"detail": {"error": ...}}
ErrorBody(text) == "detail" :> [error |-> text]
ErrorReplies ==
    { Reply(401, "Unauthorized", ErrorBody("Unauthorized: missing or invalid API key.")) }

\* requests.post(...) and the status check of the sync wrappers; the json=
\* argument is the dict with the None values removed
post_sync(params, reply) ==
    LET sent == RemoveNone(params)
    IN  IF reply.kind = "error" THEN [sent |-> sent, out |-> Raises(reply.exc)]
        ELSE IF reply.status # 200
        THEN [sent |-> sent,
              out |-> Raises([type |-> "ValueError",
                              message |-> [status |-> reply.status,
                                           text |-> reply.json["detail"].error]])]
        ELSE [sent |-> sent, out |-> Returns(reply.json)]

\* session.post(...) and the status check of the async wrappers
post_async(params, reply) ==
    LET sent == RemoveNone(params)
    IN  IF reply.kind = "error" THEN [sent |-> sent, out |-> Raises(reply.exc)]
        ELSE IF reply.status = 200 THEN [sent |-> sent, out |-> Returns(reply.json)]
        ELSE [sent |-> sent,
              out |-> Raises([type |-> "Exception",
                              message |-> [status |-> reply.status,
                                           text |-> reply.reason]])]

ToolException(head, subject, suggestions, tail) ==
    [type |-> "ToolException",
     message |-> [head |-> head, subject |-> subject,
                  suggestions |-> suggestions, tail |-> tail]]

\* the two except clauses every _run and _arun of the three tools ends with,
\* here with the ToolException clause dropped
except_clauses_swallowing(exc) ==
    Returns([error |-> exc])

\* except ToolException: raise / except Exception as e: return {"error": e}
except_clauses(exc) ==
    IF exc.type = "ToolException" THEN Raises(exc)
    ELSE Returns([error |-> exc])

\* the list a JSON reply holds under a key, [] when the key is missing
ListOf(json, key) == GetOr(json, key, <<>>)

\* ---- tavily_search.py ----

\* the parameters of the search model: the five the suggestions look at and
\* include_images; the others are handed on in the same two ways
TavilySearch_instances ==
    [kind : {"search"},
     include_domains : {NoneValue, Some(<<"a.com">>)},
     exclude_domains : {NoneValue, Some(<<"b.com">>)},
     search_depth : {NoneValue, Some("advanced")},
     include_images : {NoneValue, Some(TRUE)},
     time_range : {NoneValue, Some("week")},
     topic : {NoneValue, Some("news")}]

TavilySearch_kwargs ==
    [query : {"tla+"},
     include_domains : {Omitted, Some(<<>>), Some(<<"c.com">>)},
     exclude_domains : {Omitted, Some(<<"d.com">>)},
     search_depth : {Omitted, Some("basic"), Some("advanced")},
     include_images : {Omitted, Some(FALSE)},
     time_range : {Omitted, Some("day")},
     topic : {Omitted, Some("general"), Some("finance")}]

\* the defaults of the signatures of _run and _arun
TavilySearch_defaults(async) ==
    [include_domains |-> NoneValue,
     exclude_domains |-> NoneValue,
     search_depth |-> IF async THEN Some("basic") ELSE NoneValue,
     include_images |-> IF async THEN Some(FALSE) ELSE NoneValue,
     time_range |-> NoneValue,
     topic |-> IF async THEN Some("general") ELSE NoneValue]

SearchReplies ==
    { Reply(200, "OK", ("query" :> "tla+") @@ ("results" :> rs)) :
          rs \in {<<>>, <<"r1", "r2">>} }
    \cup { Reply(200, "OK", "query" :> "tla+"), TransportFailure }
    \cup ErrorReplies

TavilySearch_generate_suggestions(params) ==
    LET search_depth == Get(params, "search_depth")
        exclude_domains == Get(params, "exclude_domains")
        include_domains == Get(params, "include_domains")
        time_range == Get(params, "time_range")
        topic == Get(params, "topic")
    IN  (IF TruthyStr(time_range) THEN <<"Remove time_range argument">> ELSE <<>>)
        \o (IF TruthyList(include_domains) THEN <<"Remove include_domains argument">> ELSE <<>>)
        \o (IF TruthyList(exclude_domains) THEN <<"Remove exclude_domains argument">> ELSE <<>>)
        \o (IF search_depth = Some("basic")
            THEN <<"Try a more detailed search using 'advanced' search_depth">> ELSE <<>>)
        \o (IF topic # Some("general")
            THEN <<"Try a general search using 'general' topic">> ELSE <<>>)

\* the params dict of TavilySearchAPIWrapper.raw_results and raw_results_async
TavilySearchAPIWrapper_params(a) ==
    [query |-> Some(a.query),
     search_depth |-> a.search_depth,
     include_domains |-> a.include_domains,
     exclude_domains |-> a.exclude_domains,
     include_images |-> a.include_images,
     topic |-> a.topic,
     time_range |-> a.time_range]

\* the call of self.api_wrapper.raw_results / raw_results_async in
\* TavilySearch._run (async = FALSE) and _arun (async = TRUE): an attribute of
\* the instance that is truthy goes before the argument of the call
TavilySearch_call_api(self, kw, async, reply) ==
    LET d == TavilySearch_defaults(async)
        a == [query |-> kw.query,
              include_domains |-> IF TruthyList(self.include_domains)
                                  THEN self.include_domains
                                  ELSE Arg(kw.include_domains, d.include_domains),
              exclude_domains |-> IF TruthyList(self.exclude_domains)
                                  THEN self.exclude_domains
                                  ELSE Arg(kw.exclude_domains, d.exclude_domains),
              search_depth |-> IF TruthyStr(self.search_depth) THEN self.search_depth
                               ELSE Arg(kw.search_depth, d.search_depth),
              include_images |-> IF TruthyBool(self.include_images) THEN self.include_images
                                 ELSE Arg(kw.include_images, d.include_images),
              time_range |-> IF TruthyStr(self.time_range) THEN self.time_range
                             ELSE Arg(kw.time_range, d.time_range),
              topic |-> IF TruthyStr(self.topic) THEN self.topic
                        ELSE Arg(kw.topic, d.topic)]
    IN  IF async THEN post_async(TavilySearchAPIWrapper_params(a), reply)
        ELSE post_sync(TavilySearchAPIWrapper_params(a), reply)

\* the rest of the try block, here without the test for empty results
TavilySearch_check_results_skipped(kw, async, raw_results) ==
    Returns(raw_results)

\* the rest of the try block: empty results raise, anything else is returned
TavilySearch_check_results(kw, async, raw_results) ==
    LET d == TavilySearch_defaults(async)
        search_params ==
            [time_range |-> Arg(kw.time_range, d.time_range),
             include_domains |-> Arg(kw.include_domains, d.include_domains),
             search_depth |-> Arg(kw.search_depth, d.search_depth),
             exclude_domains |-> Arg(kw.exclude_domains, d.exclude_domains),
             topic |-> Arg(kw.topic, d.topic)]
    IN  IF ListOf(raw_results, "results") = <<>>
        THEN Raises(ToolException(
                 "No search results found for", kw.query,
                 TavilySearch_generate_suggestions(search_params),
                 "Try modifying your search parameters with one of these approaches."))
        ELSE Returns(raw_results)

\* a try block followed by the except clauses: what the method sent and how
\* it ended
Guarded(raw, checked) ==
    [sent |-> raw.sent,
     out |-> IF raw.out.kind = "raise" THEN except_clauses(raw.out.exc)
             ELSE IF checked.kind = "raise" THEN except_clauses(checked.exc)
             ELSE checked]

TavilySearch_method(self, kw, async, reply) ==
    LET raw == TavilySearch_call_api(self, kw, async, reply)
    IN  Guarded(raw, IF raw.out.kind = "raise" THEN raw.out
                     ELSE TavilySearch_check_results(kw, async, raw.out.value))

\* ---- tavily_extract.py ----

TavilyExtract_instances ==
    [kind : {"extract"},
     extract_depth : {NoneValue, Some("advanced")},
     include_images : {NoneValue, Some(TRUE)}]

TavilyExtract_kwargs ==
    [urls : {<<>>, <<"u1">>, <<"u1", "u2">>},
     extract_depth : {Omitted, Some("basic"), Some("advanced")},
     include_images : {Omitted, Some(FALSE)}]

ExtractReplies ==
    { Reply(200, "OK", ("results" :> rs) @@ ("failed_results" :> fs)) :
          rs \in {<<>>, <<"r1">>, <<"r1", "r2">>}, fs \in {<<>>, <<"f1">>, <<"f1", "f2">>} }
    \cup { Reply(200, "OK", "failed_results" :> fs) : fs \in {<<>>, <<"f1">>} }
    \cup { Reply(200, "OK", "results" :> <<"r1">>), TransportFailure }
    \cup ErrorReplies

TavilyExtract_generate_suggestions(params) ==
    IF TruthyStr(Get(params, "extract_depth")) /\ params["extract_depth"] = Some("basic")
    THEN <<"Try a more detailed extraction using 'advanced' extract_depth">>
    ELSE <<>>

\* the params dict of TavilyExtractAPIWrapper.raw_results and raw_results_async
TavilyExtractAPIWrapper_params(a) ==
    [urls |-> Some(a.urls),
     include_images |-> a.include_images,
     extract_depth |-> a.extract_depth]

\* the call of self.apiwrapper.raw_results / raw_results_async
TavilyExtract_call_api(self, kw, async, reply) ==
    LET a == [urls |-> kw.urls,
              extract_depth |-> IF TruthyStr(self.extract_depth) THEN self.extract_depth
                                ELSE Arg(kw.extract_depth, NoneValue),
              include_images |-> IF TruthyBool(self.include_images) THEN self.include_images
                                 ELSE Arg(kw.include_images, NoneValue)]
    IN  IF async THEN post_async(TavilyExtractAPIWrapper_params(a), reply)
        ELSE post_sync(TavilyExtractAPIWrapper_params(a), reply)

\* the rest of the try block, here raising as soon as one url failed
TavilyExtract_check_results_anyfailed(kw, async, raw_results) ==
    LET extracted == ListOf(raw_results, "results")
        failed_results == ListOf(raw_results, "failed_results")
        search_params ==
            [extract_depth |-> Arg(kw.extract_depth, NoneValue),
             include_images |-> Arg(kw.include_images, NoneValue)]
    IN  IF extracted = <<>> \/ Len(failed_results) > 0
        THEN Raises(ToolException(
                 "No extracted results found for", kw.urls,
                 TavilyExtract_generate_suggestions(search_params),
                 "Try modifying your extract parameters with one of these approaches."))
        ELSE Returns(raw_results)

\* the rest of the try block
TavilyExtract_check_results(kw, async, raw_results) ==
    LET extracted == ListOf(raw_results, "results")
        failed_results == ListOf(raw_results, "failed_results")
        search_params ==
            [extract_depth |-> Arg(kw.extract_depth, NoneValue),
             include_images |-> Arg(kw.include_images, NoneValue)]
    IN  IF extracted = <<>> \/ Len(failed_results) = Len(kw.urls)
        THEN Raises(ToolException(
                 "No extracted results found for", kw.urls,
                 TavilyExtract_generate_suggestions(search_params),
                 "Try modifying your extract parameters with one of these approaches."))
        ELSE Returns(raw_results)

TavilyExtract_method(self, kw, async, reply) ==
    LET raw == TavilyExtract_call_api(self, kw, async, reply)
    IN  Guarded(raw, IF raw.out.kind = "raise" THEN raw.out
                     ELSE TavilyExtract_check_results(kw, async, raw.out.value))

\* ---- tavily_map.py ----

\* the parameters of the map model: the six the suggestions look at; the
\* others (max_depth, max_breadth, limit, allow_external) are handed on in
\* the same way
TavilyMap_instances ==
    [kind : {"map"},
     instructions : {NoneValue, Some("docs only")},
     select_paths : {NoneValue, Some(<<"/docs/.*">>)},
     select_domains : {NoneValue, Some(<<"docs.example.com">>)},
     exclude_paths : {NoneValue, Some(<<"/private/.*">>)},
     exclude_domains : {NoneValue, Some(<<"private.example.com">>)},
     categories : {NoneValue, Some(<<"Blogs">>)}]

TavilyMap_kwargs ==
    [url : {"https://example.com"},
     instructions : {Omitted, Some("api pages")},
     select_paths : {Omitted, Some(<<"/api/.*">>)},
     select_domains : {Omitted, Some(<<"api.example.com">>)},
     exclude_paths : {Omitted, Some(<<"/admin/.*">>)},
     exclude_domains : {Omitted, Some(<<"admin.example.com">>)},
     categories : {Omitted, Some(<<"Documentation">>)}]

MapReplies ==
    { Reply(200, "OK", ("base_url" :> "https://example.com") @@ ("results" :> rs)) :
          rs \in {<<>>, <<"https://example.com/a", "https://example.com/b">>} }
    \cup { Reply(200, "OK", "base_url" :> "https://example.com"), TransportFailure }
    \cup ErrorReplies

TavilyMap_generate_suggestions(params) ==
    LET instructions == Get(params, "instructions")
        select_paths == Get(params, "select_paths")
        select_domains == Get(params, "select_domains")
        exclude_paths == Get(params, "exclude_paths")
        exclude_domains == Get(params, "exclude_domains")
        categories == Get(params, "categories")
    IN  (IF TruthyStr(instructions) THEN <<"Try a more consice instructions">> ELSE <<>>)
        \o (IF TruthyList(select_paths) THEN <<"Remove select_paths argument">> ELSE <<>>)
        \o (IF TruthyList(select_domains) THEN <<"Remove select_domains argument">> ELSE <<>>)
        \o (IF TruthyList(exclude_paths) THEN <<"Remove exclude_paths argument">> ELSE <<>>)
        \o (IF TruthyList(exclude_domains) THEN <<"Remove exclude_domains argument">> ELSE <<>>)
        \o (IF TruthyList(categories) THEN <<"Remove categories argument">> ELSE <<>>)

\* the params dict of TavilyMapAPIWrapper.raw_results and raw_results_async
TavilyMapAPIWrapper_params(a) ==
    [url |-> Some(a.url),
     instructions |-> a.instructions,
     select_paths |-> a.select_paths,
     select_domains |-> a.select_domains,
     exclude_paths |-> a.exclude_paths,
     exclude_domains |-> a.exclude_domains,
     categories |-> a.categories]

\* the call of self.api_wrapper.raw_results / raw_results_async
TavilyMap_call_api(self, kw, async, reply) ==
    LET a == [url |-> kw.url,
              instructions |-> IF TruthyStr(self.instructions) THEN self.instructions
                               ELSE Arg(kw.instructions, NoneValue),
              select_paths |-> IF TruthyList(self.select_paths) THEN self.select_paths
                               ELSE Arg(kw.select_paths, NoneValue),
              select_domains |-> IF TruthyList(self.select_domains) THEN self.select_domains
                                 ELSE Arg(kw.select_domains, NoneValue),
              exclude_paths |-> IF TruthyList(self.exclude_paths) THEN self.exclude_paths
                                ELSE Arg(kw.exclude_paths, NoneValue),
              exclude_domains |-> IF TruthyList(self.exclude_domains) THEN self.exclude_domains
                                  ELSE Arg(kw.exclude_domains, NoneValue),
              categories |-> IF TruthyList(self.categories) THEN self.categories
                             ELSE Arg(kw.categories, NoneValue)]
    IN  IF async THEN post_async(TavilyMapAPIWrapper_params(a), reply)
        ELSE post_sync(TavilyMapAPIWrapper_params(a), reply)

\* the rest of the try block; the search_params of _arun leave out
\* exclude_paths and exclude_domains
TavilyMap_check_results(kw, async, raw_results) ==
    LET common ==
            [instructions |-> Arg(kw.instructions, NoneValue),
             select_paths |-> Arg(kw.select_paths, NoneValue),
             select_domains |-> Arg(kw.select_domains, NoneValue),
             categories |-> Arg(kw.categories, NoneValue)]
        search_params ==
            IF async THEN common
            ELSE common @@ [exclude_paths |-> Arg(kw.exclude_paths, NoneValue),
                            exclude_domains |-> Arg(kw.exclude_domains, NoneValue)]
    IN  IF ListOf(raw_results, "results") = <<>>
        THEN Raises(ToolException(
                 "No crawl results found for", kw.url,
                 TavilyMap_generate_suggestions(search_params),
                 "Try modifying your crawl parameters with one of these approaches."))
        ELSE Returns(raw_results)

TavilyMap_method(self, kw, async, reply) ==
    LET raw == TavilyMap_call_api(self, kw, async, reply)
    IN  Guarded(raw, IF raw.out.kind = "raise" THEN raw.out
                     ELSE TavilyMap_check_results(kw, async, raw.out.value))

\* ---- one tool instance, called again and again ----

NoCall == [method |-> "none"]
NoReply == [kind |-> "none"]
NoOutcome == [kind |-> "none"]
NothingSent == <<>>

TavilyTools == TavilySearch_instances \cup TavilyExtract_instances \cup TavilyMap_instances

InitTavily ==
    /\ tool \in TavilyTools
    /\ invocation = NoCall
    /\ api_reply = NoReply
    /\ json_sent = NothingSent
    /\ tool_outcome = NoOutcome

\* the tools at rest, for the specifications of the other components
IdleTavily ==
    /\ tool = [kind |-> "extract", extract_depth |-> NoneValue, include_images |-> NoneValue]
    /\ invocation = NoCall
    /\ api_reply = NoReply
    /\ json_sent = NothingSent
    /\ tool_outcome = NoOutcome

\* one call of a method, from its first line to its return or raise
Invoke(method, kw, reply, done) ==
    /\ invocation = NoCall
    /\ invocation' = [method |-> method, kwargs |-> kw]
    /\ api_reply' = reply
    /\ json_sent' = done.sent
    /\ tool_outcome' = done.out
    /\ UNCHANGED <<tool, notTavily>>

TavilySearch_run ==
    /\ invocation = NoCall
    /\ tool.kind = "search"
    /\ \E kw \in TavilySearch_kwargs, reply \in SearchReplies :
          Invoke("_run", kw, reply, TavilySearch_method(tool, kw, FALSE, reply))

TavilySearch_arun ==
    /\ invocation = NoCall
    /\ tool.kind = "search"
    /\ \E kw \in TavilySearch_kwargs, reply \in SearchReplies :
          Invoke("_arun", kw, reply, TavilySearch_method(tool, kw, TRUE, reply))

TavilyExtract_run ==
    /\ invocation = NoCall
    /\ tool.kind = "extract"
    /\ \E kw \in TavilyExtract_kwargs, reply \in ExtractReplies :
          Invoke("_run", kw, reply, TavilyExtract_method(tool, kw, FALSE, reply))

TavilyExtract_arun ==
    /\ invocation = NoCall
    /\ tool.kind = "extract"
    /\ \E kw \in TavilyExtract_kwargs, reply \in ExtractReplies :
          Invoke("_arun", kw, reply, TavilyExtract_method(tool, kw, TRUE, reply))

TavilyMap_run ==
    /\ invocation = NoCall
    /\ tool.kind = "map"
    /\ \E kw \in TavilyMap_kwargs, reply \in MapReplies :
          Invoke("_run", kw, reply, TavilyMap_method(tool, kw, FALSE, reply))

TavilyMap_arun ==
    /\ invocation = NoCall
    /\ tool.kind = "map"
    /\ \E kw \in TavilyMap_kwargs, reply \in MapReplies :
          Invoke("_arun", kw, reply, TavilyMap_method(tool, kw, TRUE, reply))

\* the caller has the outcome; the tool is ready for the next call
CallOver ==
    /\ invocation # NoCall
    /\ invocation' = NoCall
    /\ api_reply' = NoReply
    /\ json_sent' = NothingSent
    /\ tool_outcome' = NoOutcome
    /\ UNCHANGED <<tool, notTavily>>

NextTavily ==
    \/ TavilySearch_run
    \/ TavilySearch_arun
    \/ TavilyExtract_run
    \/ TavilyExtract_arun
    \/ TavilyMap_run
    \/ TavilyMap_arun
    \/ CallOver


\* ---- _utilities.py: the four API wrappers called directly ----

\* the parameters of raw_results and raw_results_async of each wrapper and
\* the type each is annotated with ("!" when it is not Optional)
WrapperSignature ==
    [search |->
        [query |-> "str!", max_results |-> "int", search_depth |-> "str",
         include_domains |-> "list", exclude_domains |-> "list",
         include_answer |-> "bool", include_raw_content |-> "bool",
         include_images |-> "bool", include_image_descriptions |-> "bool",
         include_favicon |-> "bool", topic |-> "str", time_range |-> "str",
         country |-> "str", auto_parameters |-> "bool", start_date |-> "str",
         end_date |-> "str"],
     extract |->
        [urls |-> "list!", extract_depth |-> "str", include_images |-> "bool",
         include_favicon |-> "bool", format |-> "str"],
     crawl |->
        [url |-> "str!", max_depth |-> "int", max_breadth |-> "int", limit |-> "int",
         instructions |-> "str", select_paths |-> "list", select_domains |-> "list",
         exclude_paths |-> "list", exclude_domains |-> "list",
         allow_external |-> "bool", include_images |-> "bool", categories |-> "list",
         extract_depth |-> "str", include_favicon |-> "bool", format |-> "str"],
     map |->
        [url |-> "str!", max_depth |-> "int", max_breadth |-> "int", limit |-> "int",
         instructions |-> "str", select_paths |-> "list", select_domains |-> "list",
         exclude_paths |-> "list", exclude_domains |-> "list",
         allow_external |-> "bool", categories |-> "list"]]

\* a value of a parameter: None (choice 0, Optional parameters only), the
\* falsy value of its type (choice 1) or a truthy one (choice 2)
ParamValue(type, choice) ==
    IF choice = 0 /\ type \in {"int", "bool", "list", "str"} THEN NoneValue
    ELSE CASE type = "int" -> Some(IF choice = 2 THEN 5 ELSE 0)
           [] type = "bool" -> Some(choice = 2)
           [] type \in {"list", "list!"} -> Some(IF choice = 2 THEN <<"x">> ELSE <<>>)
           [] type \in {"str", "str!"} -> Some(IF choice = 2 THEN "basic" ELSE "")

\* the arguments of a call: every parameter takes the same choice but for
\* two, which take choices of their own
WrapperArguments(w) ==
    LET sig == WrapperSignature[w]
    IN  { [k \in DOMAIN sig |->
              ParamValue(sig[k], IF k = k1 THEN c1 ELSE IF k = k2 THEN c2 ELSE c0)] :
          k1 \in DOMAIN sig, k2 \in DOMAIN sig, c0 \in 0 .. 2, c1 \in 0 .. 2, c2 \in 0 .. 2 }

\* raw_results of the wrapper w: the params dict holds every argument under
\* its own name
Wrapper_raw_results(w) ==
    /\ invocation = NoCall
    /\ \E args \in WrapperArguments(w), reply \in SearchReplies :
        Invoke("raw_results", [wrapper |-> w, args |-> args], reply,
               post_sync([k \in DOMAIN WrapperSignature[w] |-> args[k]], reply))

\* raw_results_async of the wrapper w
Wrapper_raw_results_async(w) ==
    /\ invocation = NoCall
    /\ \E args \in WrapperArguments(w), reply \in SearchReplies :
        Invoke("raw_results_async", [wrapper |-> w, args |-> args], reply,
               post_async([k \in DOMAIN WrapperSignature[w] |-> args[k]], reply))

NextWrappers ==
    \/ \E w \in DOMAIN WrapperSignature : Wrapper_raw_results(w)
    \/ \E w \in DOMAIN WrapperSignature : Wrapper_raw_results_async(w)
    \/ CallOver

--------------------------------------------------------------------------
(* orchestrator.api: POST /orchestrate and stream_generator *)

\* requests in flight at the same time
Requests == {1, 2}

HumanMessage(content) == [type |-> "human", content |-> content]

\* events of graph.astream_events
ChatModelStream(content) ==
    [event |-> "on_chat_model_stream", data |-> [chunk |-> [content |-> content]]]
ToolEnd(output) == [event |-> "on_tool_end", data |-> [output |-> output]]
OtherEvent(kind) == [event |-> kind, data |-> [input |-> "x"]]

\* the event streams a run of the graph can produce
EventRuns ==
    { <<>>,
      << OtherEvent("on_chain_start"), ChatModelStream("Hel"), ChatModelStream(""),
         ChatModelStream("lo"), OtherEvent("on_chain_end") >>,
      << ChatModelStream(""), OtherEvent("on_tool_start"), ToolEnd("42.00"),
         ChatModelStream("ACME is at 42") >>,
      << ToolEnd("") >> }

NoStream ==
    [pc |-> "idle", input_message |-> "", inputs |-> [messages |-> <<>>],
     run |-> <<>>, consumed |-> 0, emitted |-> <<>>]

\* the module is imported: graph = create_graph()
InitApi ==
    /\ graphs_created = 1
    /\ streams = [r \in Requests |-> NoStream]

\* the inputs dict, here built from the messages of every request in flight
stream_generator_inputs_shared(r) ==
    [messages |-> LET others == { q \in Requests \ {r} : streams[q].pc # "idle" }
                  IN  IF others = {} THEN << HumanMessage(streams[r].input_message) >>
                      ELSE << HumanMessage(streams[CHOOSE q \in others : TRUE].input_message),
                              HumanMessage(streams[r].input_message) >>]

\* inputs = {"messages": [HumanMessage(content=input_message)]}
stream_generator_inputs(r) ==
    [messages |-> << HumanMessage(streams[r].input_message) >>]

\* the body of the async for loop, here yielding empty content as well
stream_generator_step_unfiltered(event) ==
    IF event.event = "on_chat_model_stream" THEN << <<event.data.chunk.content>> >>
    ELSE IF event.event = "on_tool_end"
    THEN << <<"\nTool output: ", event.data.output, "\n">> >>
    ELSE <<>>

\* the body of the async for loop: the chunks one event makes it yield, a
\* chunk being the pieces of its text
stream_generator_step(event) ==
    IF event.event = "on_chat_model_stream"
    THEN IF event.data.chunk.content # "" THEN << <<event.data.chunk.content>> >> ELSE <<>>
    ELSE IF event.event = "on_tool_end"
    THEN << <<"\nTool output: ", event.data.output, "\n">> >>
    ELSE <<>>

\* POST /orchestrate: the response wraps stream_generator(request.message)
orchestrate(r) ==
    /\ streams[r].pc = "idle"
    /\ \E m \in {"price of ACME?", "open a ticket"} :
          streams' = [streams EXCEPT ![r] = [NoStream EXCEPT !.pc = "created",
                                                              !.input_message = m]]
    /\ UNCHANGED <<graphs_created, notApi>>

\* the response is iterated for the first time: the generator builds its
\* inputs and starts the shared graph on them
StreamStart(r) ==
    /\ streams[r].pc = "created"
    /\ \E run \in EventRuns :
          streams' = [streams EXCEPT ![r].pc = "streaming",
                                     ![r].inputs = stream_generator_inputs(r),
                                     ![r].run = run]
    /\ UNCHANGED <<graphs_created, notApi>>

\* the graph produces its next event and the loop body handles it
StreamEvent(r) ==
    /\ streams[r].pc = "streaming"
    /\ streams[r].consumed < Len(streams[r].run)
    /\ streams' = [streams EXCEPT
          ![r].consumed = @ + 1,
          ![r].emitted = @ \o stream_generator_step(streams[r].run[streams[r].consumed + 1])]
    /\ UNCHANGED <<graphs_created, notApi>>

\* the event stream is exhausted: the generator returns
StreamEnd(r) ==
    /\ streams[r].pc = "streaming"
    /\ streams[r].consumed = Len(streams[r].run)
    /\ streams' = [streams EXCEPT ![r].pc = "closed"]
    /\ UNCHANGED <<graphs_created, notApi>>

\* the response has been sent; the slot serves the next request
ResponseSent(r) ==
    /\ streams[r].pc = "closed"
    /\ streams' = [streams EXCEPT ![r] = NoStream]
    /\ UNCHANGED <<graphs_created, notApi>>

NextApi ==
    \/ \E r \in Requests : orchestrate(r)
    \/ \E r \in Requests : StreamStart(r)
    \/ \E r \in Requests : StreamEvent(r)
    \/ \E r \in Requests : StreamEnd(r)
    \/ \E r \in Requests : ResponseSent(r)

--------------------------------------------------------------------------
(* orchestrator.utils: create_router; orchestrator.tools: the support tickets *)

\* create_router(llm, topics, default_topic)
Routers ==
    [topics : {<<"sql", "support">>, <<"support">>}, default_topic : {"general", "support"}]

\* graph states: the router reads the content of the last message
RouterStates ==
    { [messages |-> << HumanMessage("how many customers?") >>],
      [messages |-> << HumanMessage("hi"), HumanMessage("my laptop is dead") >>] }

\* the additional_kwargs of the message the bound model answers with: a
\* function call whose arguments name a node, one without 'next', arguments
\* that are still the JSON text (a str), or no function call at all
ModelReplies ==
    { [function_call |-> [name |-> "route", arguments |-> [next |-> n]]] :
          n \in {"sql", "support", "general", "weather"} }
    \cup { [function_call |-> [name |-> "route", arguments |-> [agent |-> "sql"]]],
           [function_call |-> [name |-> "route", arguments |-> [str |-> "{\"next\": \"sql\"}"]]],
           [refusal |-> "I cannot help with that"] }

\* router_function(state), the chain having answered with additional_kwargs
router_function(router, state, additional_kwargs) ==
    IF "function_call" \notin DOMAIN additional_kwargs
    THEN Raises([type |-> "KeyError", message |-> [text |-> "function_call"]])
    ELSE LET arguments == additional_kwargs.function_call.arguments
         IN  IF "str" \in DOMAIN arguments
             THEN Raises([type |-> "TypeError",
                          message |-> [text |-> "string indices must be integers"]])
             ELSE IF "next" \notin DOMAIN arguments
             THEN Raises([type |-> "KeyError", message |-> [text |-> "next"]])
             ELSE Returns(arguments.next)

\* uuid.uuid4() as a string: some identifier not handed out before
TicketIds == {"0b5f", "9c1e"}
Customers == {"John Doe", "Ada Lovelace"}
Issues == {"My computer won't turn on.", "Refund not received"}

\* the text get_support_ticket_details returns, in the pieces the f-string
\* joins
get_support_ticket_details(ticket_id) ==
    << "Details for ticket ", ticket_id, ": Customer: ", "John Doe",
       ", Issue: ", "My computer won't turn on." >>

InitAgents ==
    /\ routing = [called |-> FALSE]
    /\ support = [stdout |-> <<>>, held |-> <<>>, lookup |-> [ticket_id |-> "", details |-> <<>>]]

\* a conditional edge calls the router function of some router
Route ==
    /\ \E router \in Routers, state \in RouterStates, reply \in ModelReplies :
          routing' = [called |-> TRUE, router |-> router, state |-> state,
                      reply |-> reply, out |-> router_function(router, state, reply)]
    /\ UNCHANGED <<support, notAgents>>

\* create_support_ticket(customer, issue): prints a line, returns the new id;
\* nothing is stored but what the caller keeps
create_support_ticket ==
    /\ \E customer \in Customers, issue \in Issues,
          ticket_id \in TicketIds \ { support.held[i].ticket_id : i \in 1 .. Len(support.held) } :
          support' = [support EXCEPT
              !.stdout = Append(@, <<"Created support ticket ", ticket_id, " for ",
                                     customer, " with issue: ", issue>>),
              !.held = Append(@, [ticket_id |-> ticket_id, customer |-> customer,
                                  issue |-> issue])]
    /\ UNCHANGED <<routing, notAgents>>

\* get_support_ticket_details(ticket_id) for a ticket id the caller holds
LookUp ==
    /\ \E i \in 1 .. Len(support.held) :
          support' = [support EXCEPT
              !.lookup = [ticket_id |-> support.held[i].ticket_id,
                          details |-> get_support_ticket_details(support.held[i].ticket_id)]]
    /\ UNCHANGED <<routing, notAgents>>

NextAgents ==
    \/ Route
    \/ create_support_ticket
    \/ LookUp

--------------------------------------------------------------------------
(* Specifications: one component runs, the others rest *)

InitSpecHttp == InitHttp /\ IdleParse /\ IdleTavily /\ InitApi /\ InitAgents
SpecHttp == InitSpecHttp /\ [][NextHttp]_vars

InitSpecParse == InitParse /\ InitHttp /\ IdleTavily /\ InitApi /\ InitAgents
SpecParse == InitSpecParse /\ [][NextParse]_vars

InitSpecTavily == InitTavily /\ InitHttp /\ IdleParse /\ InitApi /\ InitAgents
SpecTavily == InitSpecTavily /\ [][NextTavily]_vars

InitSpecWrappers == InitHttp /\ IdleParse /\ IdleTavily /\ InitApi /\ InitAgents
SpecWrappers == InitSpecWrappers /\ [][NextWrappers]_vars

InitSpecApi == InitApi /\ InitHttp /\ IdleParse /\ IdleTavily /\ InitAgents
SpecApi == InitSpecApi /\ [][NextApi]_vars

InitSpecAgents == InitAgents /\ InitHttp /\ IdleParse /\ IdleTavily /\ InitApi
SpecAgents == InitSpecAgents /\ [][NextAgents]_vars

--------------------------------------------------------------------------
(* Claims about the engines *)

\* the texts _strptime reads as the number n: %m takes "7" and "07", %d also " 7"
MonthTexts(n) == { NatToStr(n), ZeroFill(NatToStr(n), 2) }
DayTexts(n) == MonthTexts(n) \cup (IF n < 10 THEN { <<" ">> \o NatToStr(n) } ELSE {})

\* the calendar dates a text denotes when read as  a sep b sep yyyy, (a, b)
\* being (day, month) when dayFirst and (month, day) otherwise
DatesRead(s, sep, dayFirst) ==
    IF Len(s) < 4 \/ \E k \in Len(s) - 3 .. Len(s) : ~ IsDigit(s[k]) THEN {}
    ELSE LET y == ParseInt(SubSeq(s, Len(s) - 3, Len(s)))
         IN  { dt \in [y : {y}, m : 1 .. 12, d : 1 .. 31] :
                 /\ y >= 1
                 /\ dt.d <= DaysInMonth(y, dt.m)
                 /\ \E a \in DayTexts(dt.d), b \in MonthTexts(dt.m) :
                       s = (IF dayFirst THEN a \o <<sep>> \o b ELSE b \o <<sep>> \o a)
                           \o <<sep>> \o SubSeq(s, Len(s) - 3, Len(s)) }

\* the ISO-8601 text of the instant at which the date begins in the local zone
IsoOfLocalDate(dt) == IsoFormat(AsTimezoneUtc(dt, tz))

\* s is a relative expression of n days: the number, blanks, one of the units
RelativeDays(s, n) ==
    \E u \in DATE_RE_UNITS, blanks \in {<<>>, <<" ">>, <<" ", " ">>} :
        s = NatToStr(n) \o blanks \o u
MaxDaysAgo == 9

HasDigit(s) == \E k \in 1 .. Len(s) : IsDigit(s[k])

\* the clock reading, to the second, at which record i was post-processed
ReadSecond(r, i) == [days |-> ClockAt(r[i]).days, sec |-> ClockAt(r[i]).sec, usec |-> 0]

\* image path cut at its first '&'
CutAtAmpersand(img) ==
    LET amps == { k \in 1 .. Len(img) : img[k] = "&" }
    IN  IF amps = {} THEN img
        ELSE SubSeq(img, 1, (CHOOSE k \in amps : \A j \in amps : k <= j) - 1)

ANNAS_ORIGIN == <<"h","t","t","p","s",":","/","/","a","n","n","a","s","-","a","r","c","h","i","v","e",".","l","i">>

SameOtherFields(a, b, rewritten) ==
    /\ DOMAIN a = DOMAIN b
    /\ \A f \in DOMAIN a \ rewritten : a[f] = b[f]

\* C3 as stated: for a fixed response body every run of the extraction steps
\* yields the same ordered sequence of records with the same field values,
\* whatever the time at which it runs, BingNews included.
C3_SameResultsEveryRun ==
    (ppc = "done" /\ prev.has) => results = prev.results

\* C3 as amended: for a fixed response body and local time zone every run
\* yields the same number of records in the same order with the same values
\* of every field, except the date of a BingNews record whose extracted date
\* holds a number and is in none of the three absolute formats: that date is
\* the same in two runs when both handle the record within the same second.
C3_SameResultsUpToClock ==
    (ppc = "done" /\ prev.has) =>
        /\ Len(results) = Len(prev.results)
        /\ \A i \in 1 .. Len(results) :
              /\ SameOtherFields(results[i], prev.results[i], {"date"})
              /\ "date" \in DOMAIN results[i] =>
                    \/ results[i].date = prev.results[i].date
                    \/ /\ engine = "bing"
                       /\ HasDigit(built[i].date)
                       /\ DatesRead(built[i].date, ".", TRUE) = {}
                       /\ DatesRead(built[i].date, "/", FALSE) = {}
                       /\ DatesRead(built[i].date, "/", TRUE) = {}
                       /\ ReadSecond(reads, i) # ReadSecond(prev.reads, i)

\* a second BingNews run over a relative date, at another clock reading within
\* the same second as the first
C3_Witness ==
    /\ ppc = "done" /\ prev.has /\ engine = "bing"
    /\ \E i \in 1 .. Len(results) :
          /\ RelativeDays(built[i].date, 2)
          /\ reads[i] # prev.reads[i]
          /\ ReadSecond(reads, i) = ReadSecond(prev.reads, i)
          /\ results[i].date = prev.results[i].date

\* C5 as stated: once a record is built no later step changes any of its fields.
C5_RecordsImmutable ==
    ppc \in {"extracted", "done"} => results = built

\* the fields post_extract_results rewrites
Rewritten(e) ==
    CASE e = "annasarchive" -> {"url"}
      [] e = "bing" -> {"date", "image"}
      [] e = "duckduckgo" -> {}

\* C5 as amended: after a record is built only its adapter's
\* post_extract_results changes it, and only the url (AnnasArchive) or the
\* date and image (BingNews); every other field keeps the value it was built
\* with and no record is added, dropped or moved.
C5_OnlyHookFieldsChange ==
    /\ ppc = "extracted" => results = built
    /\ ppc = "done" =>
          /\ Len(results) = Len(built)
          /\ \A i \in 1 .. Len(results) :
                SameOtherFields(results[i], built[i], Rewritten(engine))

\* BingNews post-processing has rewritten the date and the image of a record
C5_Witness ==
    /\ ppc = "done" /\ engine = "bing"
    /\ \E i \in 1 .. Len(results) :
          /\ results[i].date # built[i].date
          /\ results[i].image # built[i].image
          /\ results[i].title = built[i].title

\* C6: after any sequence of build_payload, pre_process_html and
\* post_extract_results calls each adapter's search_url, search_method,
\* items_xpath and elements_xpath have the values of the class definition.
C6_ConfigNeverMutated ==
    \A e \in Engines :
        /\ config[e].search_url = AdapterConfig[e].search_url
        /\ config[e].search_method = AdapterConfig[e].search_method
        /\ config[e].items_xpath = AdapterConfig[e].items_xpath
        /\ config[e].elements_xpath = AdapterConfig[e].elements_xpath

\* a second AnnasArchive search has gone through all three calls
C6_Witness ==
    /\ ppc = "done" /\ prev.has /\ engine = "annasarchive"
    /\ Len(results) > 0 /\ html # body

\* C7: AnnasArchive.post_extract_results returns the same records in the same
\* number and order, each url being 'https://annas-archive.li' followed by the
\* extracted url and every other field unchanged.
C7_AnnasUrlsNormalized ==
    (ppc = "done" /\ engine = "annasarchive") =>
        /\ Len(results) = Len(built)
        /\ \A i \in 1 .. Len(results) :
              /\ results[i].url = ANNAS_ORIGIN \o built[i].url
              /\ SameOtherFields(results[i], built[i], {"url"})

\* three records, with and without an extracted url
C7_Witness ==
    /\ ppc = "done" /\ engine = "annasarchive" /\ Len(results) = 3
    /\ \E i, j \in 1 .. 3 : built[i].url = <<>> /\ Len(built[j].url) > 0

\* what C8 says of the image and of a relative date
C8_ImageAndRelative(i) ==
    /\ built[i].image # <<>> =>
          results[i].image = BING_ORIGIN \o CutAtAmpersand(built[i].image)
    /\ built[i].image = <<>> => results[i].image = <<>>
    /\ \A n \in 0 .. MaxDaysAgo :
          RelativeDays(built[i].date, n) =>
              results[i].date = IsoFormat(MinusDays(ReadSecond(reads, i), n))

BingFirstFormatWins ==
    (ppc = "done" /\ engine = "bing") =>
        /\ Len(results) = Len(built)
        /\ \A i \in 1 .. Len(results) :
              /\ SameOtherFields(results[i], built[i], {"date", "image"})
              /\ C8_ImageAndRelative(i)
              /\ \A dt \in DatesRead(built[i].date, ".", TRUE) :
                    results[i].date = IsoOfLocalDate(dt)
              /\ \A dt \in DatesRead(built[i].date, "/", FALSE) :
                    results[i].date = IsoOfLocalDate(dt)
              /\ DatesRead(built[i].date, "/", FALSE) = {} =>
                    \A dt \in DatesRead(built[i].date, "/", TRUE) :
                        results[i].date = IsoOfLocalDate(dt)

--------------------------------------------------------------------------
(* Claims about the Tavily tools *)

\* the API answered 200 with a JSON object
Answered == invocation # NoCall /\ api_reply.kind = "response" /\ api_reply.status = 200

\* ... whose 'results' entry is missing or empty
NoResults == "results" \notin DOMAIN api_reply.json \/ api_reply.json["results"] = <<>>

\* the suggestion texts of a tool, in the order _generate_suggestions adds them
SuggestionTexts(kind) ==
    IF kind = "search"
    THEN << "Remove time_range argument", "Remove include_domains argument",
            "Remove exclude_domains argument",
            "Try a more detailed search using 'advanced' search_depth",
            "Try a general search using 'general' topic" >>
    ELSE << "Try a more consice instructions", "Remove select_paths argument",
            "Remove select_domains argument", "Remove exclude_paths argument",
            "Remove exclude_domains argument", "Remove categories argument" >>

\* s lists some of the texts of t, each once, in the order of t
ListsSomeOf(s, t) ==
    \E pick \in SUBSET (1 .. Len(t)) :
        /\ Len(s) = Cardinality(pick)
        /\ \A i \in 1 .. Len(s) :
              \E k \in pick : s[i] = t[k] /\ Cardinality({ j \in pick : j < k }) = i - 1

\* C9: in _run and _arun of TavilySearch and TavilyMap a 200 answer without
\* results is never returned: the call raises ToolException, whose message
\* names the query (or the url) and lists the suggestions; an answer with
\* results is returned as it is.
C9_NoResultsRaise ==
    (Answered /\ tool.kind \in {"search", "map"}) =>
        IF NoResults
        THEN /\ tool_outcome.kind = "raise"
             /\ tool_outcome.exc.type = "ToolException"
             /\ tool_outcome.exc.message.subject =
                    (IF tool.kind = "search" THEN invocation.kwargs.query
                     ELSE invocation.kwargs.url)
             /\ ListsSomeOf(tool_outcome.exc.message.suggestions, SuggestionTexts(tool.kind))
        ELSE tool_outcome = Returns(api_reply.json)

\* TavilyMap._arun got an answer without a 'results' entry and raised, with
\* suggestions in the message
C9_Witness ==
    /\ Answered /\ tool.kind = "map" /\ invocation.method = "_arun"
    /\ "results" \notin DOMAIN api_reply.json
    /\ tool_outcome.kind = "raise"
    /\ Len(tool_outcome.exc.message.suggestions) >= 2

\* C10: in _run and _arun of the three tools a ToolException is re-raised,
\* never wrapped, and every other exception raised while calling the API (an
\* instance of Exception: a transport failure, the ValueError or Exception of
\* the wrappers for a status other than 200) is not propagated: the method
\* returns the dict {'error': that exception}.
C10_OnlyToolExceptionPropagates ==
    invocation # NoCall =>
        /\ tool_outcome.kind = "raise" => tool_outcome.exc.type = "ToolException"
        /\ (tool_outcome.kind = "return" /\ DOMAIN tool_outcome.value = {"error"}) =>
                tool_outcome.value["error"].type # "ToolException"
        /\ (Answered /\ NoResults) => tool_outcome.kind = "raise"
        /\ api_reply.kind = "error" =>
                tool_outcome = Returns([error |-> api_reply.exc])
        /\ (api_reply.kind = "response" /\ api_reply.status # 200) =>
                /\ tool_outcome.kind = "return"
                /\ DOMAIN tool_outcome.value = {"error"}
                /\ tool_outcome.value["error"].type =
                       (IF invocation.method = "_run" THEN "ValueError" ELSE "Exception")
                /\ tool_outcome.value["error"].message.status = api_reply.status

\* TavilyExtract._arun met a 401 and returned the wrapper's exception
C10_Witness ==
    /\ invocation # NoCall /\ tool.kind = "extract" /\ invocation.method = "_arun"
    /\ api_reply.kind = "response" /\ api_reply.status = 401
    /\ tool_outcome.kind = "return"
    /\ tool_outcome.value["error"].type = "Exception"

\* the value a parameter had in the JSON body of the request, None when absent
SentValue(key) == IF key \in DOMAIN json_sent THEN Some(json_sent[key]) ELSE NoneValue

\* C11: when a TavilySearch call finds no results, the suggestions of the
\* ToolException are those _generate_suggestions gives for the values of
\* time_range, include_domains, exclude_domains, search_depth and topic that
\* were sent to the API in that request, whether a value came from the
\* instance's attributes or from the call.
C11_SuggestionsFromSentParams ==
    (Answered /\ NoResults /\ tool.kind = "search" /\ tool_outcome.kind = "raise") =>
        tool_outcome.exc.message.suggestions =
            TavilySearch_generate_suggestions(
                [time_range |-> SentValue("time_range"),
                 include_domains |-> SentValue("include_domains"),
                 exclude_domains |-> SentValue("exclude_domains"),
                 search_depth |-> SentValue("search_depth"),
                 topic |-> SentValue("topic")])

\* the number of entries a JSON answer holds under a key, 0 when it is missing
CountOf(json, key) == IF key \in DOMAIN json THEN Len(json[key]) ELSE 0

\* C12: TavilyExtract._run and _arun raise ToolException exactly when the
\* answer has no or an empty 'results' entry or as many 'failed_results' as
\* urls were requested; in every other case, some urls having failed
\* included, the answer is returned as it is.
C12_ExtractRaisesIffNothingExtracted ==
    (Answered /\ tool.kind = "extract") =>
        LET nothing == \/ CountOf(api_reply.json, "results") = 0
                       \/ CountOf(api_reply.json, "failed_results") = Len(invocation.kwargs.urls)
        IN  /\ nothing <=> (tool_outcome.kind = "raise" /\ tool_outcome.exc.type = "ToolException")
            /\ ~ nothing => tool_outcome = Returns(api_reply.json)

\* one of two urls failed and the answer came back
C12_Witness ==
    /\ Answered /\ tool.kind = "extract"
    /\ Len(invocation.kwargs.urls) = 2
    /\ CountOf(api_reply.json, "failed_results") = 1
    /\ CountOf(api_reply.json, "results") = 1
    /\ tool_outcome = Returns(api_reply.json)

\* C13: the JSON body a wrapper sends holds exactly the parameters whose
\* value is not None, each with the value passed: None is absent, while
\* False, 0 and an empty list are present.
C13_BodyIsTheNonNoneParams ==
    (invocation # NoCall /\ invocation.method \in {"raw_results", "raw_results_async"}) =>
        LET args == invocation.kwargs.args
        IN  /\ DOMAIN json_sent = { k \in DOMAIN args : ~ args[k].none }
            /\ \A k \in DOMAIN json_sent : json_sent[k] = args[k].v

\* the async crawl wrapper sent limit 0, allow_external False and an empty
\* select_paths, and left out instructions, which was None
C13_Witness ==
    /\ invocation # NoCall /\ invocation.method = "raw_results_async"
    /\ invocation.kwargs.wrapper = "crawl"
    /\ invocation.kwargs.args["instructions"].none
    /\ "instructions" \notin DOMAIN json_sent
    /\ "limit" \in DOMAIN json_sent /\ json_sent["limit"] = 0
    /\ "allow_external" \in DOMAIN json_sent /\ json_sent["allow_external"] = FALSE
    /\ "select_paths" \in DOMAIN json_sent /\ json_sent["select_paths"] = <<>>

--------------------------------------------------------------------------
(* Claims about the orchestrator *)

\* the events that make stream_generator speak
Speaks(e) ==
    \/ e.event = "on_chat_model_stream" /\ e.data.chunk.content # ""
    \/ e.event = "on_tool_end"

\* the chunks owed for a sequence of events, in their order
ChunksOwed(es) ==
    LET heard == SelectSeq(es, Speaks)
    IN  [i \in 1 .. Len(heard) |->
            IF heard[i].event = "on_tool_end"
            THEN <<"\nTool output: ", heard[i].data.output, "\n">>
            ELSE <<heard[i].data.chunk.content>>]

\* C14: stream_generator emits, in the order of the events, one chunk for
\* every on_chat_model_stream event with non-empty content (the content) and
\* one for every on_tool_end event ('\nTool output: <output>\n'); other
\* events and empty content emit nothing, and once the event stream has ended
\* every event has been handled and nothing more is emitted.
C14_ChunksFollowEvents ==
    \A r \in Requests :
        /\ streams[r].emitted = ChunksOwed(SubSeq(streams[r].run, 1, streams[r].consumed))
        /\ streams[r].pc = "closed" =>
              /\ streams[r].consumed = Len(streams[r].run)
              /\ streams[r].emitted = ChunksOwed(streams[r].run)

\* a stream of five events, one of them with empty content, has ended with
\* two chunks emitted
C14_Witness ==
    \E r \in Requests :
        /\ streams[r].pc = "closed"
        /\ Len(streams[r].run) = 5
        /\ streams[r].emitted = << <<"Hel">>, <<"lo">> >>

\* C17: the graph is created once and shared, and every request, concurrent
\* ones included, starts it on an input whose 'messages' holds exactly one
\* element, the HumanMessage of that request's own message.
C17_OwnMessageOnly ==
    /\ graphs_created = 1
    /\ \A r \in Requests :
          streams[r].pc \in {"streaming", "closed"} =>
              streams[r].inputs = [messages |-> << HumanMessage(streams[r].input_message) >>]

\* two requests with different messages are streaming at the same time
C17_Witness ==
    /\ streams[1].pc = "streaming" /\ streams[2].pc = "streaming"
    /\ streams[1].input_message # streams[2].input_message
    /\ streams[1].consumed > 0 /\ streams[2].consumed > 0

\* C15: the function create_router returns gives, for every state, the name
\* of the next node, always one of topics plus default_topic; when the
\* model's routing output names none of the topics it gives default_topic.
C15_RouterStaysInTopics ==
    routing.called =>
        LET nodes == { routing.router.topics[i] : i \in 1 .. Len(routing.router.topics) }
                     \cup { routing.router.default_topic }
            named == IF /\ "function_call" \in DOMAIN routing.reply
                        /\ "next" \in DOMAIN routing.reply.function_call.arguments
                     THEN { routing.reply.function_call.arguments.next }
                     ELSE {}
        IN  /\ routing.out.kind = "return"
            /\ routing.out.value \in nodes
            /\ named \cap nodes = {} => routing.out.value = routing.router.default_topic

\* text names x: x is one of the pieces it was joined from
Names(text, x) == \E i \in 1 .. Len(text) : text[i] = x

\* C16: get_support_ticket_details(t), t being the id create_support_ticket
\* returned for (customer, issue), gives a text naming that customer and that
\* issue, and tickets that differ in customer or issue have different details.
C16_TicketsRoundTrip ==
    \A i \in 1 .. Len(support.held) :
        LET t == support.held[i]
        IN  /\ support.lookup.ticket_id = t.ticket_id =>
                  /\ Names(support.lookup.details, t.customer)
                  /\ Names(support.lookup.details, t.issue)
            /\ \A j \in 1 .. Len(support.held) :
                  (support.held[j].customer # t.customer \/ support.held[j].issue # t.issue) =>
                      get_support_ticket_details(support.held[j].ticket_id)
                          # get_support_ticket_details(t.ticket_id)

--------------------------------------------------------------------------
(* Claims about build_payload *)

\* a build_payload call of adapter e has been made and its outcome is at hand
Built(e) == engine = e /\ build_args.called

\* the decimal text of a number below 100, and the number a decimal text of
\* at most two digits stands for
Decimal(n) ==
    IF n < 10 THEN <<Digits[n + 1]>>
    ELSE <<Digits[(n \div 10) + 1], Digits[(n % 10) + 1]>>
NumberOf(text) == CHOOSE n \in 0 .. 99 : Decimal(n) = text

\* how many hyphens a region has
Hyphens(region) == Cardinality({i \in 1 .. Len(region) : region[i] = "-"})

\* the time limits BingNews has an interval for
BingTimeLimits == {"d", "w", "m", "y"}

\* C18: Duckduckgo.build_payload always returns a payload with 'q' the query,
\* 'b' the empty string and 'l' the region as given; 's' is there exactly
\* when page > 1 and is then str(10 + (page - 2) * 15); 'df' is there exactly
\* when timelimit is non-empty and is then the timelimit; there is no other
\* key, and another safesearch gives the same payload.
C18_DuckduckgoPayload ==
    Built("duckduckgo") =>
        /\ payload.kind = "payload"
        /\ LET a == build_args
               pv == payload.value
           IN  /\ pv.q = a.query
               /\ pv.b = <<>>
               /\ pv.l = a.region
               /\ ("s" \in DOMAIN pv) <=> (a.page > 1)
               /\ (a.page > 1) => pv.s = Decimal(10 + (a.page - 2) * 15)
               /\ ("df" \in DOMAIN pv) <=> (a.timelimit \notin {None, ""})
               /\ (a.timelimit \notin {None, ""}) => pv.df = a.timelimit
               /\ DOMAIN pv \subseteq {"q", "b", "l", "s", "df"}
               /\ \A ss \in SafeSearches :
                     Duckduckgo_build_payload(a.query, a.region, ss, a.timelimit, a.page)
                         = payload

\* a later page with a time limit has been built by Duckduckgo
C18_Witness ==
    /\ Built("duckduckgo")
    /\ build_args.page = 3
    /\ build_args.timelimit = "w"
    /\ build_args.safesearch = "off"
    /\ payload.kind = "payload"
    /\ payload.value.s = <<"2","5">>
    /\ payload.value.df = "w"

\* the build_payload call had a region of the form <country>-<lang>, a page
\* from 1 on and a time limit BingNews knows
BingWellFormed ==
    /\ Built("bing")
    /\ Hyphens(build_args.region) = 1
    /\ build_args.page >= 1
    /\ build_args.timelimit \in {None, ""} \cup BingTimeLimits

\* C19: for a region '<country>-<lang>' and a page p >= 1 BingNews.build_payload
\* gives 'first' = str(10p + 1), 'SFX' = str(p), 'cc' the lower-cased country
\* and 'setlang' the lower-cased language; the window [first, first + 9] of
\* page p + 1 starts right after the window of page p ends; 'qft' is there
\* exactly when timelimit is non-empty, with d -> interval="4",
\* w -> interval="7", m and y -> interval="9".
C19_BingNewsPaging ==
    BingWellFormed =>
        /\ payload.kind = "payload"
        /\ LET a == build_args
               pv == payload.value
               next == BingNews_build_payload(a.query, a.region, a.safesearch,
                                              a.timelimit, a.page + 1)
           IN  /\ pv.first = Decimal(10 * a.page + 1)
               /\ pv.SFX = Decimal(a.page)
               /\ \E i \in 1 .. Len(a.region) :
                     /\ a.region[i] = "-"
                     /\ pv.cc = PyLower(SubSeq(a.region, 1, i - 1))
                     /\ pv.setlang = PyLower(SubSeq(a.region, i + 1, Len(a.region)))
               /\ next.kind = "payload"
               /\ NumberOf(next.value.first) = NumberOf(pv.first) + 9 + 1
               /\ ("qft" \in DOMAIN pv) <=> (a.timelimit \notin {None, ""})
               /\ a.timelimit = "d" => pv.qft = "interval=\"4\""
               /\ a.timelimit = "w" => pv.qft = "interval=\"7\""
               /\ a.timelimit \in {"m", "y"} => pv.qft = "interval=\"9\""

\* page 2 of region US-en with the time limit of a year has been built
C19_Witness ==
    /\ BingWellFormed
    /\ build_args.region = <<"U","S","-","e","n">>
    /\ build_args.page = 2
    /\ build_args.timelimit = "y"
    /\ payload.kind = "payload"
    /\ payload.value.first = <<"2","1">>
    /\ payload.value.cc = <<"u","s">>
    /\ payload.value.qft = "interval=\"9\""

\* C20: BingNews.build_payload returns a payload only for a region with
\* exactly one hyphen and a timelimit that is None, empty, 'd', 'w', 'm' or
\* 'y'; a region with no or several hyphens raises ValueError, any other
\* non-empty timelimit raises KeyError; then there is no payload, and the
\* error is neither DDGSException nor TimeoutException.
C20_BingNewsRejects ==
    Built("bing") =>
        LET a == build_args
            regionOk == Hyphens(a.region) = 1
            limitOk == a.timelimit \in {None, ""} \cup BingTimeLimits
        IN  /\ (payload.kind = "payload") <=> (regionOk /\ limitOk)
            /\ ~ regionOk => payload = Raised("ValueError")
            /\ (regionOk /\ ~ limitOk) => payload = Raised("KeyError")
            /\ payload.kind \in {"payload", "raise"}
            /\ payload.kind = "raise" =>
                  /\ "value" \notin DOMAIN payload
                  /\ payload.exc \notin {"DDGSException", "TimeoutException"}
                  /\ ppc = "raised"

\* the time limit of an hour has been refused for a well-formed region
C20_Witness ==
    /\ Built("bing")
    /\ build_args.region = <<"u","s","-","e","n">>
    /\ build_args.timelimit = "h"
    /\ payload = Raised("KeyError")
    /\ ppc = "raised"

====
